---- MODULE Spec2Model ----
(***************************************************************************)
(* A model of multi-manager: workspaces of OS windows, each with a global  *)
(* shortcut; a detection thread polls the keyboard every 100 ms and        *)
(* toggles the windows of every workspace whose shortcut is down, while    *)
(* the UI thread edits the same workspace list under one mutex.            *)
(*                                                                         *)
(* Option<T> is modelled as a sequence of length 0 (None) or 1 (Some).     *)
(* A key sequence ("Ctrl+A") is modelled as the list of its '+'-separated  *)
(* tokens (<<"Ctrl", "A">>), which is what split('+') yields.              *)
(***************************************************************************)
EXTENDS Integers, Sequences, FiniteSets, TLC

VARIABLES
    workspaces,        \* App.workspaces: Vec<Workspace>
    registered_hotkeys,\* App.registered_hotkeys: key sequence -> id
    last_hotkey_info,  \* App.last_hotkey_info: Option<key sequence>
    wsLock,            \* holder of the App.workspaces mutex: "none", "ui", "det"
    mutexes,           \* holder of each other mutex of App, by field name
    osLive,            \* OS: the window handles for which IsWindow is true
    osPos,             \* OS: handle -> rectangle (GetWindowRect / SetWindowPos)
    osIconic,          \* OS: the minimized handles (IsIconic)
    osHotkeys,         \* OS: the hot keys this process holds, {[id, mods, vk]}
    keysDown,          \* OS: virtual keys currently down (GetAsyncKeyState < 0)
    phase,             \* main: "start", "loading", "loaded", "running", "gui_closed", "exited"
    detPc,             \* detection thread: position in loop { check_hotkeys; sleep }
    toToggle,          \* check_hotkeys: workspaces_to_toggle (positions from 1)
    detected,          \* history: position and name of each workspace the poll collected
    tPc,               \* toggle_workspace_windows: "idle", "decide", "window", "done"
    tWs,               \* toggle_workspace_windows: position of the workspace borrowed
    tK,                \* toggle_workspace_windows: position of the for loop
    all_at_home,       \* toggle_workspace_windows: the direction decision
    osLog,             \* the window OS calls issued by the toggle in progress
    uiPc,              \* main/UI thread: "idle", or the blocking dialog it is inside
    uiAt,              \* main/UI thread: position of the workspace it is working on
    uiTemp,            \* egui memory: temp_hotkey text stored under the workspace position
    uiEdits,           \* history: the user inputs the UI has handled so far
    lastOp,            \* history: the last registry call and what it returned
    holdToggles,       \* history: toggles per position since the keyboard last changed
    pairStage          \* history: progress of a pair of undisturbed toggles

vars == <<workspaces, registered_hotkeys, last_hotkey_info, wsLock, mutexes, osLive, osPos,
          osIconic, osHotkeys, keysDown, phase, detPc, toToggle, detected, tPc, tWs,
          tK, all_at_home, osLog, uiPc, uiAt, uiTemp, uiEdits, lastOp,
          holdToggles, pairStage>>

regVars == <<registered_hotkeys, osHotkeys, lastOp>>
winVars == <<osLive, osPos, osIconic>>
detVars == <<detPc, toToggle, detected>>
togVars == <<tPc, tWs, tK, all_at_home, osLog>>
uiVars == <<uiPc, uiAt, uiTemp, uiEdits>>

(***************************************************************************)
(* Bounds of the model.                                                    *)
(***************************************************************************)
MaxHwnd == 2          \* window handles are 1..MaxHwnd
MaxWindows == 2       \* windows per workspace
MaxWorkspaces == 2    \* workspaces in the list
MaxCount == 2         \* history counters saturate here
MaxEdits == 2         \* user inputs the UI handles in one run
MaxTokens == 3        \* tokens of a shortcut text drawn freely

\* The mutexes of App other than workspaces, by field name, and their state
\* when no thread holds any of them.
Mutexes == {"last_hotkey_info", "registered_hotkeys", "initial_validation_done",
            "hotkey_promise"}
NoHolder == [m \in Mutexes |-> "none"]

None == <<>>
Some(x) == <<x>>
IsSome(o) == Len(o) = 1
Unwrap(o) == o[1]

Min(a, b) == IF a < b THEN a ELSE b

Hwnds == 1..MaxHwnd

\* Rectangles (x, y, width, height). RectDefault is the rectangle a captured
\* window gets for both home and target.
RectDefault == <<0, 0, 800, 600>>
RectB == <<100, 100, 800, 600>>
Rects == {RectDefault, RectB}

(***************************************************************************)
(* Key tables and the parsing of key sequences.                            *)
(***************************************************************************)
\* str::to_lowercase and str::to_uppercase on the tokens the model uses: every
\* other token of the model is its own image (digits, '_', and letters already
\* in that case).
Lower(t) ==
    CASE t \in {"Ctrl", "CTRL", "ctrl"} -> "ctrl"
      [] t \in {"Alt", "ALT", "alt"} -> "alt"
      [] t \in {"Shift", "SHIFT", "shift"} -> "shift"
      [] t \in {"Win", "WIN", "win"} -> "win"
      [] t \in {"A", "a"} -> "a"
      [] t \in {"B", "b"} -> "b"
      [] t \in {"C", "c"} -> "c"
      [] t \in {"F25", "f25"} -> "f25"
      [] t \in {"None", "none"} -> "none"
      [] OTHER -> t

Upper(t) ==
    CASE t \in {"Ctrl", "CTRL", "ctrl"} -> "CTRL"
      [] t \in {"Alt", "ALT", "alt"} -> "ALT"
      [] t \in {"Shift", "SHIFT", "shift"} -> "SHIFT"
      [] t \in {"Win", "WIN", "win"} -> "WIN"
      [] t \in {"A", "a"} -> "A"
      [] t \in {"B", "b"} -> "B"
      [] t \in {"C", "c"} -> "C"
      [] t \in {"F25", "f25"} -> "F25"
      [] t \in {"None", "none"} -> "NONE"
      [] OTHER -> t

\* The match arms of window_manager::virtual_key_from_string, as (name, code).
VkTable == {
    <<"F1", 112>>, <<"F2", 113>>, <<"F3", 114>>, <<"F4", 115>>, <<"F5", 116>>,
    <<"F6", 117>>, <<"F7", 118>>, <<"F8", 119>>, <<"F9", 120>>, <<"F10", 121>>,
    <<"F11", 122>>, <<"F12", 123>>, <<"F13", 124>>, <<"F14", 125>>, <<"F15", 126>>,
    <<"F16", 127>>, <<"F17", 128>>, <<"F18", 129>>, <<"F19", 130>>, <<"F20", 131>>,
    <<"F21", 132>>, <<"F22", 133>>, <<"F23", 134>>, <<"F24", 135>>, <<"A", 65>>,
    <<"B", 66>>, <<"C", 67>>, <<"D", 68>>, <<"E", 69>>, <<"F", 70>>, <<"G", 71>>,
    <<"H", 72>>, <<"I", 73>>, <<"J", 74>>, <<"K", 75>>, <<"L", 76>>, <<"M", 77>>,
    <<"N", 78>>, <<"O", 79>>, <<"P", 80>>, <<"Q", 81>>, <<"R", 82>>, <<"S", 83>>,
    <<"T", 84>>, <<"U", 85>>, <<"V", 86>>, <<"W", 87>>, <<"X", 88>>, <<"Y", 89>>,
    <<"Z", 90>>, <<"0", 48>>, <<"1", 49>>, <<"2", 50>>, <<"3", 51>>, <<"4", 52>>,
    <<"5", 53>>, <<"6", 54>>, <<"7", 55>>, <<"8", 56>>, <<"9", 57>>,
    <<"NUMPAD0", 96>>, <<"NUMPAD1", 97>>, <<"NUMPAD2", 98>>, <<"NUMPAD3", 99>>,
    <<"NUMPAD4", 100>>, <<"NUMPAD5", 101>>, <<"NUMPAD6", 102>>, <<"NUMPAD7", 103>>,
    <<"NUMPAD8", 104>>, <<"NUMPAD9", 105>>, <<"NUMPADMULTIPLY", 106>>,
    <<"NUMPADADD", 107>>, <<"NUMPADSEPARATOR", 108>>, <<"NUMPADSUBTRACT", 109>>,
    <<"NUMPADDOT", 110>>, <<"NUMPADDIVIDE", 111>>, <<"UP", 38>>, <<"DOWN", 40>>,
    <<"LEFT", 37>>, <<"RIGHT", 39>>, <<"BACKSPACE", 8>>, <<"TAB", 9>>,
    <<"ENTER", 13>>, <<"SHIFT", 16>>, <<"CTRL", 17>>, <<"ALT", 18>>, <<"PAUSE", 19>>,
    <<"CAPSLOCK", 20>>, <<"ESCAPE", 27>>, <<"SPACE", 32>>, <<"PAGEUP", 33>>,
    <<"PAGEDOWN", 34>>, <<"END", 35>>, <<"HOME", 36>>, <<"INSERT", 45>>,
    <<"DELETE", 46>>, <<"OEM_PLUS", 187>>, <<"OEM_COMMA", 188>>,
    <<"OEM_MINUS", 189>>, <<"OEM_PERIOD", 190>>, <<"OEM_1", 186>>, <<"OEM_2", 191>>,
    <<"OEM_3", 192>>, <<"OEM_4", 219>>, <<"OEM_5", 220>>, <<"OEM_6", 221>>,
    <<"OEM_7", 222>>, <<"PRINTSCREEN", 44>>, <<"SCROLLLOCK", 145>>,
    <<"NUMLOCK", 144>>, <<"LEFTSHIFT", 160>>, <<"RIGHTSHIFT", 161>>,
    <<"LEFTCTRL", 162>>, <<"RIGHTCTRL", 163>>, <<"LEFTALT", 164>>, <<"RIGHTALT", 165>>
    }

\* A translation that knows two keys only, as the match of
\* hotkey_manager::virtual_key_from_string does.
virtual_key_from_string_f1_f2(key) ==
    CASE Upper(key) = "F1" -> Some(112)
      [] Upper(key) = "F2" -> Some(113)
      [] OTHER -> None

virtual_key_from_string(key) ==
    LET upper == Upper(key)
        hits == {p \in VkTable : p[1] = upper}
    IN  IF hits = {} THEN None ELSE Some((CHOOSE p \in hits : TRUE)[2])

\* Win32 constants: HOT_KEY_MODIFIERS bits and the modifier virtual keys.
MOD_ALT == 1
MOD_CONTROL == 2
MOD_SHIFT == 4
MOD_WIN == 8
VK_SHIFT == 16
VK_CONTROL == 17
VK_MENU == 18
VK_LWIN == 91
VK_RWIN == 92

\* modifiers |= flag, for a flag that is a single bit.
BitOr(modifiers, flag) ==
    IF (modifiers \div flag) % 2 = 1 THEN modifiers ELSE modifiers + flag

\* The loop `for part in key_sequence.split('+')` of Hotkey::register: the
\* modifier bits collected and the code of the last non-modifier token.
RECURSIVE ParseForRegister(_, _, _)
ParseForRegister(parts, modifiers, vk_code) ==
    IF parts = <<>> THEN [modifiers |-> modifiers, vk_code |-> vk_code]
    ELSE LET part == Head(parts)
             low == Lower(part)
         IN  CASE low = "ctrl" ->
                    ParseForRegister(Tail(parts), BitOr(modifiers, MOD_CONTROL), vk_code)
               [] low = "alt" ->
                    ParseForRegister(Tail(parts), BitOr(modifiers, MOD_ALT), vk_code)
               [] low = "shift" ->
                    ParseForRegister(Tail(parts), BitOr(modifiers, MOD_SHIFT), vk_code)
               [] low = "win" ->
                    ParseForRegister(Tail(parts), BitOr(modifiers, MOD_WIN), vk_code)
               [] OTHER ->
                    ParseForRegister(Tail(parts), modifiers, virtual_key_from_string(part))

\* GetAsyncKeyState(vk) < 0
KeyDown(down, vk) == vk \in down

\* The loop of is_hotkey_pressed: modifiers_pressed and vk_code.
RECURSIVE ParseForPressed(_, _, _, _)
ParseForPressed(parts, down, modifiers_pressed, vk_code) ==
    IF parts = <<>> THEN [modifiers_pressed |-> modifiers_pressed, vk_code |-> vk_code]
    ELSE LET part == Head(parts)
             low == Lower(part)
         IN  CASE low = "ctrl" ->
                    ParseForPressed(Tail(parts), down,
                                    modifiers_pressed /\ KeyDown(down, VK_CONTROL), vk_code)
               [] low = "alt" ->
                    ParseForPressed(Tail(parts), down,
                                    modifiers_pressed /\ KeyDown(down, VK_MENU), vk_code)
               [] low = "shift" ->
                    ParseForPressed(Tail(parts), down,
                                    modifiers_pressed /\ KeyDown(down, VK_SHIFT), vk_code)
               [] low = "win" ->
                    ParseForPressed(Tail(parts), down,
                                    modifiers_pressed
                                      /\ (KeyDown(down, VK_LWIN) \/ KeyDown(down, VK_RWIN)),
                                    vk_code)
               [] OTHER ->
                    ParseForPressed(Tail(parts), down, modifiers_pressed,
                                    virtual_key_from_string(part))

is_hotkey_pressed(key_sequence, down) ==
    LET p == ParseForPressed(key_sequence, down, TRUE, None)
    IN  IF IsSome(p.vk_code)
        THEN p.modifiers_pressed /\ KeyDown(down, Unwrap(p.vk_code))
        ELSE FALSE

(***************************************************************************)
(* Validation of shortcut text and the Hotkey type.                        *)
(***************************************************************************)
\* The modifier alternation (?:Ctrl|Alt|Shift|Win) of the pattern.
RegexModifiers == {"Ctrl", "Alt", "Shift", "Win"}

\* The terminal-key alternation of the pattern.
RegexKeys == {
    "F1", "F2", "F3", "F4", "F5", "F6", "F7", "F8", "F9", "F10", "F11", "F12", "F13",
    "F14", "F15", "F16", "F17", "F18", "F19", "F20", "F21", "F22", "F23", "F24", "A",
    "B", "C", "D", "E", "F", "G", "H", "I", "J", "K", "L", "M", "N", "O", "P", "Q",
    "R", "S", "T", "U", "V", "W", "X", "Y", "Z", "0", "1", "2", "3", "4", "5", "6",
    "7", "8", "9", "NUMPAD0", "NUMPAD1", "NUMPAD2", "NUMPAD3", "NUMPAD4", "NUMPAD5",
    "NUMPAD6", "NUMPAD7", "NUMPAD8", "NUMPAD9", "NUMPADMULTIPLY", "NUMPADADD",
    "NUMPADSEPARATOR", "NUMPADSUBTRACT", "NUMPADDOT", "NUMPADDIVIDE", "UP", "DOWN",
    "LEFT", "RIGHT", "BACKSPACE", "TAB", "ENTER", "PAUSE", "CAPSLOCK", "ESCAPE",
    "SPACE", "PAGEUP", "PAGEDOWN", "END", "HOME", "INSERT", "DELETE", "OEM_PLUS",
    "OEM_COMMA", "OEM_MINUS", "OEM_PERIOD", "OEM_1", "OEM_2", "OEM_3", "OEM_4",
    "OEM_5", "OEM_6", "OEM_7", "PRINTSCREEN", "SCROLLLOCK", "NUMLOCK", "LEFTSHIFT",
    "LEFTCTRL", "LEFTALT", "RIGHTSHIFT", "RIGHTCTRL", "RIGHTALT"
    }

\* Regex::is_match of the anchored pattern: up to four optional groups of a
\* modifier and '+', then one terminal key. Neither alternation holds a '+', so
\* the text matches exactly when its '+'-separated tokens are at most four
\* modifiers followed by one key.
is_valid_key_combo(input) ==
    /\ Len(input) >= 1
    /\ Len(input) <= 5
    /\ \A k \in 1..(Len(input) - 1) : input[k] \in RegexModifiers
    /\ input[Len(input)] \in RegexKeys

\* Hotkey { key_sequence, id }
Hotkey(key_sequence, id) == [key_sequence |-> key_sequence, id |-> id]

\* impl Display for Hotkey: write!(f, "{}", self.key_sequence)
HotkeyDisplay(hotkey) == hotkey.key_sequence

\* The tokens of a text without those that repeat an earlier one.
RECURSIVE Deduplicated(_)
Deduplicated(parts) ==
    IF parts = <<>> THEN <<>>
    ELSE LET front == Deduplicated(SubSeq(parts, 1, Len(parts) - 1))
             last == parts[Len(parts)]
         IN  IF \E n \in 1..Len(front) : front[n] = last
             THEN front ELSE Append(front, last)

\* A constructor that stores the text in a normal form, every token once.
HotkeyNewDeduplicating(key_sequence) ==
    IF is_valid_key_combo(key_sequence)
    THEN Some(Hotkey(Deduplicated(key_sequence), None))
    ELSE None

\* Hotkey::new: Ok(Hotkey) as Some, Err as None.
HotkeyNew(key_sequence) ==
    IF is_valid_key_combo(key_sequence)
    THEN Some(Hotkey(key_sequence, None))
    ELSE None

\* Workspace::set_hotkey: the workspace afterwards (unchanged on Err).
set_hotkey(ws, text) ==
    LET new == HotkeyNew(text)
    IN  IF IsSome(new) THEN [ws EXCEPT !.hotkey = Some(Unwrap(new))] ELSE ws

\* The Result of Workspace::set_hotkey: TRUE for Ok(()).
set_hotkey_ok(text) == IsSome(HotkeyNew(text))

(***************************************************************************)
(* The OS hot key table: RegisterHotKey / UnregisterHotKey with a NULL     *)
(* window. A key combination can be bound once system-wide; an id can be   *)
(* registered again with another combination, and then both are kept.      *)
(***************************************************************************)
\* Combinations (mods, vk) held by other applications: Ctrl+Alt+B.
OtherAppHotkeys == {<<3, 66>>}

OsCombos(os) == {<<b.mods, b.vk>> : b \in os}

RegisterHotKeyOk(os, mods, vk) ==
    <<mods, vk>> \notin (OsCombos(os) \cup OtherAppHotkeys)

UnregisterHotKeyOk(os, id) == \E b \in os : b.id = id

\* What UnregisterHotKey may leave when several bindings share the id: the
\* documentation does not say whether one or all of them are released.
UnregisterHotKeyResults(os, id) ==
    LET mine == {b \in os : b.id = id}
    IN  {os \ gone : gone \in (SUBSET mine) \ {{}}}

\* HashMap::insert and HashMap::remove on registered_hotkeys.
MapInsert(m, k, v) == [x \in (DOMAIN m) \cup {k} |-> IF x = k THEN v ELSE m[x]]
MapRemove(m, k) == [x \in (DOMAIN m) \ {k} |-> m[x]]
EmptyMap == [x \in {} |-> 0]

\* A register that records the id and the map entry whenever the key
\* translates, whatever RegisterHotKey answers.
HotkeyRegisterUnchecked(hotkey, id, os, reg) ==
    LET p == ParseForRegister(hotkey.key_sequence, 0, None)
    IN  IF IsSome(p.vk_code)
        THEN LET ok == RegisterHotKeyOk(os, p.modifiers, Unwrap(p.vk_code))
             IN  [ok |-> ok,
                  hotkey |-> [hotkey EXCEPT !.id = Some(id)],
                  os |-> IF ok
                         THEN os \cup {[id |-> id, mods |-> p.modifiers,
                                        vk |-> Unwrap(p.vk_code)]}
                         ELSE os,
                  reg |-> MapInsert(reg, hotkey.key_sequence, id)]
        ELSE [ok |-> FALSE, hotkey |-> hotkey, os |-> os, reg |-> reg]

\* A register that binds key code 0 when the key does not translate.
HotkeyRegisterDefaultKey(hotkey, id, os, reg) ==
    LET p == ParseForRegister(hotkey.key_sequence, 0, None)
        vk == IF IsSome(p.vk_code) THEN Unwrap(p.vk_code) ELSE 0
    IN  IF RegisterHotKeyOk(os, p.modifiers, vk)
        THEN [ok |-> TRUE,
              hotkey |-> [hotkey EXCEPT !.id = Some(id)],
              os |-> os \cup {[id |-> id, mods |-> p.modifiers, vk |-> vk]},
              reg |-> MapInsert(reg, hotkey.key_sequence, id)]
        ELSE [ok |-> FALSE, hotkey |-> hotkey, os |-> os, reg |-> reg]

\* Hotkey::register(&mut self, app, id): the returned bool, self afterwards, the
\* OS table and registered_hotkeys.
HotkeyRegister(hotkey, id, os, reg) ==
    LET p == ParseForRegister(hotkey.key_sequence, 0, None)
    IN  IF IsSome(p.vk_code) /\ RegisterHotKeyOk(os, p.modifiers, Unwrap(p.vk_code))
        THEN [ok |-> TRUE,
              hotkey |-> [hotkey EXCEPT !.id = Some(id)],
              os |-> os \cup {[id |-> id, mods |-> p.modifiers, vk |-> Unwrap(p.vk_code)]},
              reg |-> MapInsert(reg, hotkey.key_sequence, id)]
        ELSE [ok |-> FALSE, hotkey |-> hotkey, os |-> os, reg |-> reg]

\* Hotkey::unregister(&self, app): the possible outcomes, each the returned
\* bool, the OS table and registered_hotkeys.
HotkeyUnregister(hotkey, os, reg) ==
    IF IsSome(hotkey.id) /\ UnregisterHotKeyOk(os, Unwrap(hotkey.id))
    THEN {[ok |-> TRUE, os |-> o, reg |-> MapRemove(reg, hotkey.key_sequence)] :
            o \in UnregisterHotKeyResults(os, Unwrap(hotkey.id))}
    ELSE {[ok |-> FALSE, os |-> os, reg |-> reg]}

(***************************************************************************)
(* Workspaces, windows and the OS window calls.                            *)
(***************************************************************************)
\* Window { id, title, home, target, valid }
Window(id, home, target, valid) ==
    [id |-> id, title |-> "w", home |-> home, target |-> target, valid |-> valid]

\* Workspace { name, hotkey, windows, disabled, valid }
Workspace(name, hotkey, windows, disabled, valid) ==
    [name |-> name, hotkey |-> hotkey, windows |-> windows,
     disabled |-> disabled, valid |-> valid]

\* An IsWindow that takes every handle for a window.
IsWindowAlways(hwnd) == TRUE

\* IsWindow(hwnd)
IsWindow(hwnd) == hwnd \in osLive

\* get_window_position: Ok(rect) as Some, Err as None (GetWindowRect fails on a
\* handle that is no window).
get_window_position(hwnd) == IF IsWindow(hwnd) THEN Some(osPos[hwnd]) ELSE None

is_window_at_position(hwnd, rect) ==
    LET got == get_window_position(hwnd)
    IN  IF IsSome(got) THEN Unwrap(got) = rect ELSE FALSE

are_all_windows_at_home(workspace) ==
    \A k \in 1..Len(workspace.windows) :
        LET w == workspace.windows[k]
        IN  w.valid => (IsWindow(w.id) /\ is_window_at_position(w.id, w.home))

\* One entry of osLog: the call, the position of the window in the workspace,
\* its handle, the rectangle asked for (moves only) and whether the call
\* succeeded.
OsCall(op, k, hwnd, rect, ok) == [op |-> op, k |-> k, hwnd |-> hwnd, rect |-> rect, ok |-> ok]

\* The destination the loop body picks for one window.
target_position(window, at_home) == IF at_home THEN window.target ELSE window.home

\* A pair of undisturbed toggles advances when a toggle of the pair returns.
PairAdvance(stage) == IF stage \in {1, 3} THEN stage + 1 ELSE stage

\* A decision that first stores the liveness of every handle in the
\* window's valid flag.
ToggleDecideRefreshing ==
    /\ phase # "exited"
    /\ tPc = "decide"
    /\ all_at_home' = are_all_windows_at_home(workspaces[tWs])
    /\ tK' = 1
    /\ osLog' = <<>>
    /\ IF Len(workspaces[tWs].windows) = 0
       THEN tPc' = "done" /\ pairStage' = PairAdvance(pairStage)
       ELSE tPc' = "window" /\ pairStage' = pairStage
    /\ workspaces' = [workspaces EXCEPT ![tWs].windows =
                         [k \in 1..Len(workspaces[tWs].windows) |->
                            [workspaces[tWs].windows[k] EXCEPT
                               !.valid = IsWindow(workspaces[tWs].windows[k].id)]]]
    /\ UNCHANGED <<last_hotkey_info, wsLock, mutexes, keysDown, phase, tWs,
                   holdToggles, regVars, winVars, detVars, uiVars>>

\* toggle_workspace_windows, first statement: the direction decision. A
\* workspace without windows is done at once.
ToggleDecide ==
    /\ phase # "exited"
    /\ tPc = "decide"
    /\ all_at_home' = are_all_windows_at_home(workspaces[tWs])
    /\ tK' = 1
    /\ osLog' = <<>>
    /\ IF Len(workspaces[tWs].windows) = 0
       THEN tPc' = "done" /\ pairStage' = PairAdvance(pairStage)
       ELSE tPc' = "window" /\ pairStage' = pairStage
    /\ UNCHANGED <<workspaces, last_hotkey_info, wsLock, mutexes, keysDown, phase, tWs,
                   holdToggles, regVars, winVars, detVars, uiVars>>

\* A loop that gives up the window, and the toggle, at the first failed move.
ToggleWindowStopOnFailure ==
    /\ phase # "exited"
    /\ tPc = "window"
    /\ LET window == workspaces[tWs].windows[tK]
           hwnd == window.id
           dest == target_position(window, all_at_home)
           last == (tK = Len(workspaces[tWs].windows))
       IN  /\ IF ~IsWindow(hwnd)
              THEN /\ osLog' = Append(osLog, OsCall("skip", tK, hwnd, <<>>, TRUE))
                   /\ UNCHANGED <<osPos, osIconic>>
                   /\ pairStage' = IF last THEN PairAdvance(pairStage) ELSE pairStage
              ELSE \E restoreOk, moveOk, activateOk \in BOOLEAN :
                   /\ tPc' = IF last \/ ~moveOk THEN "done" ELSE "window"
                   /\ osLog' = osLog
                        \o (IF hwnd \in osIconic
                            THEN <<OsCall("restore", tK, hwnd, <<>>, restoreOk)>>
                            ELSE <<>>)
                        \o <<OsCall("move", tK, hwnd, dest, moveOk)>>
                        \o (IF moveOk
                            THEN <<OsCall("activate", tK, hwnd, <<>>, activateOk)>>
                            ELSE <<>>)
                   /\ osIconic' = IF hwnd \in osIconic /\ restoreOk
                                  THEN osIconic \ {hwnd} ELSE osIconic
                   /\ osPos' = IF moveOk THEN [osPos EXCEPT ![hwnd] = dest] ELSE osPos
                   /\ pairStage' = IF ~moveOk THEN 0
                                   ELSE IF last THEN PairAdvance(pairStage)
                                   ELSE pairStage
           /\ tK' = tK + 1
           /\ ~IsWindow(hwnd) => tPc' = IF last THEN "done" ELSE "window"
    /\ UNCHANGED <<workspaces, last_hotkey_info, wsLock, mutexes, osLive, keysDown, phase, tWs,
                   all_at_home, holdToggles, regVars, detVars, uiVars>>

\* A loop that leaves out the move of a window already at its destination.
ToggleWindowSkipIfAtDestination ==
    /\ phase # "exited"
    /\ tPc = "window"
    /\ LET window == workspaces[tWs].windows[tK]
           hwnd == window.id
           dest == target_position(window, all_at_home)
           last == (tK = Len(workspaces[tWs].windows))
       IN  /\ IF ~IsWindow(hwnd)
              THEN /\ osLog' = Append(osLog, OsCall("skip", tK, hwnd, <<>>, TRUE))
                   /\ UNCHANGED <<osPos, osIconic>>
                   /\ pairStage' = IF last THEN PairAdvance(pairStage) ELSE pairStage
              ELSE \E restoreOk, moveOk, activateOk \in BOOLEAN :
                   /\ osLog' = osLog
                        \o (IF hwnd \in osIconic
                            THEN <<OsCall("restore", tK, hwnd, <<>>, restoreOk)>>
                            ELSE <<>>)
                        \o (IF is_window_at_position(hwnd, dest)
                            THEN <<>>
                            ELSE <<OsCall("move", tK, hwnd, dest, moveOk)>>)
                        \o <<OsCall("activate", tK, hwnd, <<>>, activateOk)>>
                   /\ osIconic' = IF hwnd \in osIconic /\ restoreOk
                                  THEN osIconic \ {hwnd} ELSE osIconic
                   /\ osPos' = IF moveOk THEN [osPos EXCEPT ![hwnd] = dest] ELSE osPos
                   /\ pairStage' = IF ~moveOk THEN 0
                                   ELSE IF last THEN PairAdvance(pairStage)
                                   ELSE pairStage
           /\ tK' = tK + 1
           /\ tPc' = IF last THEN "done" ELSE "window"
    /\ UNCHANGED <<workspaces, last_hotkey_info, wsLock, mutexes, osLive, keysDown, phase, tWs,
                   all_at_home, holdToggles, regVars, detVars, uiVars>>

\* A loop that skips by the cached valid flag and does not ask IsWindow.
ToggleWindowTrustingValid ==
    /\ phase # "exited"
    /\ tPc = "window"
    /\ LET window == workspaces[tWs].windows[tK]
           hwnd == window.id
           dest == target_position(window, all_at_home)
           last == (tK = Len(workspaces[tWs].windows))
       IN  /\ IF ~window.valid
              THEN /\ osLog' = Append(osLog, OsCall("skip", tK, hwnd, <<>>, TRUE))
                   /\ UNCHANGED <<osPos, osIconic>>
                   /\ pairStage' = IF last THEN PairAdvance(pairStage) ELSE pairStage
              ELSE \E restoreOk, moveOk, activateOk \in BOOLEAN :
                   /\ osLog' = osLog
                        \o (IF hwnd \in osIconic
                            THEN <<OsCall("restore", tK, hwnd, <<>>, restoreOk)>>
                            ELSE <<>>)
                        \o <<OsCall("move", tK, hwnd, dest, moveOk),
                             OsCall("activate", tK, hwnd, <<>>, activateOk)>>
                   /\ osIconic' = IF hwnd \in osIconic /\ restoreOk
                                  THEN osIconic \ {hwnd} ELSE osIconic
                   /\ osPos' = IF moveOk THEN [osPos EXCEPT ![hwnd] = dest] ELSE osPos
                   /\ pairStage' = IF ~moveOk THEN 0
                                   ELSE IF last THEN PairAdvance(pairStage)
                                   ELSE pairStage
           /\ tK' = tK + 1
           /\ tPc' = IF last THEN "done" ELSE "window"
    /\ UNCHANGED <<workspaces, last_hotkey_info, wsLock, mutexes, osLive, keysDown, phase, tWs,
                   all_at_home, holdToggles, regVars, detVars, uiVars>>

\* toggle_workspace_windows, one pass of `for window in &workspace.windows`:
\* skip a handle that is no window; otherwise restore it if minimized, move it
\* and activate it, each call succeeding or failing as the OS decides.
ToggleWindow ==
    /\ phase # "exited"
    /\ tPc = "window"
    /\ LET window == workspaces[tWs].windows[tK]
           hwnd == window.id
           dest == target_position(window, all_at_home)
           last == (tK = Len(workspaces[tWs].windows))
       IN  /\ IF ~IsWindow(hwnd)
              THEN /\ osLog' = Append(osLog, OsCall("skip", tK, hwnd, <<>>, TRUE))
                   /\ UNCHANGED <<osPos, osIconic>>
                   /\ pairStage' = IF last THEN PairAdvance(pairStage) ELSE pairStage
              ELSE \E restoreOk, moveOk, activateOk \in BOOLEAN :
                   /\ osLog' = osLog
                        \o (IF hwnd \in osIconic
                            THEN <<OsCall("restore", tK, hwnd, <<>>, restoreOk)>>
                            ELSE <<>>)
                        \o <<OsCall("move", tK, hwnd, dest, moveOk),
                             OsCall("activate", tK, hwnd, <<>>, activateOk)>>
                   /\ osIconic' = IF hwnd \in osIconic /\ restoreOk
                                  THEN osIconic \ {hwnd} ELSE osIconic
                   /\ osPos' = IF moveOk THEN [osPos EXCEPT ![hwnd] = dest] ELSE osPos
                   /\ pairStage' = IF ~moveOk THEN 0
                                   ELSE IF last THEN PairAdvance(pairStage)
                                   ELSE pairStage
           /\ tK' = tK + 1
           /\ tPc' = IF last THEN "done" ELSE "window"
    /\ UNCHANGED <<workspaces, last_hotkey_info, wsLock, mutexes, osLive, keysDown, phase, tWs,
                   all_at_home, holdToggles, regVars, detVars, uiVars>>

(***************************************************************************)
(* The environment: windows close, are moved or minimized by the user or   *)
(* their owner, and keys go down and up, at any time.                      *)
(***************************************************************************)
WindowClose(h) ==
    /\ phase # "exited"
    /\ h \in osLive
    /\ osLive' = osLive \ {h}
    /\ osIconic' = osIconic \ {h}
    /\ pairStage' = 0
    /\ UNCHANGED <<workspaces, last_hotkey_info, wsLock, mutexes, osPos, keysDown, phase,
                   holdToggles, regVars, detVars, togVars, uiVars>>

WindowMoved(h, r) ==
    /\ phase # "exited"
    /\ h \in osLive
    /\ osPos[h] # r
    /\ osPos' = [osPos EXCEPT ![h] = r]
    /\ pairStage' = 0
    /\ UNCHANGED <<workspaces, last_hotkey_info, wsLock, mutexes, osLive, osIconic, keysDown,
                   phase, holdToggles, regVars, detVars, togVars, uiVars>>

WindowMinimized(h) ==
    /\ phase # "exited"
    /\ h \in osLive \ osIconic
    /\ osIconic' = osIconic \cup {h}
    /\ pairStage' = 0
    /\ UNCHANGED <<workspaces, last_hotkey_info, wsLock, mutexes, osLive, osPos, keysDown,
                   phase, holdToggles, regVars, detVars, togVars, uiVars>>

\* The keys a user of the model presses: Ctrl and A.
PhysKeys == {VK_CONTROL, 65}

NoToggles == [i \in 1..MaxWorkspaces |-> 0]

KeyPress(k) ==
    /\ phase # "exited"
    /\ k \notin keysDown
    /\ keysDown' = keysDown \cup {k}
    /\ holdToggles' = NoToggles
    /\ UNCHANGED <<workspaces, last_hotkey_info, wsLock, mutexes, phase, pairStage, regVars,
                   winVars, detVars, togVars, uiVars>>

KeyRelease(k) ==
    /\ phase # "exited"
    /\ k \in keysDown
    /\ keysDown' = keysDown \ {k}
    /\ holdToggles' = NoToggles
    /\ UNCHANGED <<workspaces, last_hotkey_info, wsLock, mutexes, phase, pairStage, regVars,
                   winVars, detVars, togVars, uiVars>>

(***************************************************************************)
(* The toggle engine on its own: one workspace in any state the program    *)
(* can hold it in (windows captured or loaded, cached valid flags of any   *)
(* age), toggled repeatedly while the environment acts.                    *)
(***************************************************************************)
RECURSIVE SeqsUpTo(_, _)
SeqsUpTo(S, n) ==
    IF n = 0 THEN {<<>>}
    ELSE LET shorter == SeqsUpTo(S, n - 1)
         IN  shorter \cup {Append(s, x) : s \in shorter, x \in S}

AllWindows == {Window(id, home, target, valid) :
                 id \in Hwnds, home \in Rects, target \in Rects, valid \in BOOLEAN}

\* Every live window of the workspace sits at its home rectangle.
LiveAllAtHome(workspace) ==
    \A k \in 1..Len(workspace.windows) :
        LET w == workspace.windows[k]
        IN  IsWindow(w.id) => osPos[w.id] = w.home

\* lastOp: the registry or validation call made last, the position of its
\* workspace, what it returned (for a validation, the flag it set), the
\* workspace's hotkey before it, and a bit that flips per call.
NoOp == [op |-> "none", i |-> 0, ok |-> FALSE, old |-> None, n |-> 0]
RegistryCall(op, i, ok, old) ==
    [op |-> op, i |-> i, ok |-> ok, old |-> old, n |-> 1 - lastOp.n]
NoTemp == [i \in 1..MaxWorkspaces |-> None]
WsName(n) == <<"Workspace", n>>

InitToggle ==
    /\ workspaces \in {<<Workspace(WsName(1), Some(Hotkey(<<"Ctrl", "A">>, None)),
                                   windows, FALSE, FALSE)>> :
                         windows \in SeqsUpTo(AllWindows, MaxWindows)}
    /\ osLive = Hwnds
    /\ osPos = [h \in Hwnds |-> RectDefault]
    /\ osIconic = {}
    /\ registered_hotkeys = EmptyMap
    /\ last_hotkey_info = None
    /\ wsLock = "det"
    /\ mutexes = NoHolder
    /\ osHotkeys = {}
    /\ keysDown = {}
    /\ phase = "running"
    /\ detPc = "dispatch"
    /\ toToggle = <<>>
    /\ detected = <<>>
    /\ tPc = "idle"
    /\ tWs = 1
    /\ tK = 1
    /\ all_at_home = FALSE
    /\ osLog = <<>>
    /\ uiPc = "idle"
    /\ uiAt = 1
    /\ uiTemp = NoTemp
    /\ uiEdits = 0
    /\ lastOp = NoOp
    /\ holdToggles = NoToggles
    /\ pairStage = 0

\* check_hotkeys, the call toggle_workspace_windows(workspace) on the borrowed
\* workspace. A first call on a workspace whose live windows are all at home
\* opens a pair; the next call continues it unless something disturbed it.
ToggleCall ==
    /\ tPc \in {"idle", "done"}
    /\ tWs' = 1
    /\ tPc' = "decide"
    /\ pairStage' = IF pairStage = 2 THEN 3
                    ELSE IF LiveAllAtHome(workspaces[1]) THEN 1 ELSE 0
    /\ UNCHANGED <<workspaces, last_hotkey_info, wsLock, mutexes, keysDown, phase, tK,
                   all_at_home, osLog, holdToggles, regVars, winVars, detVars, uiVars>>

NextToggle ==
    \/ ToggleCall
    \/ ToggleDecide
    \/ ToggleWindow
    \/ \E h \in Hwnds : WindowClose(h)
    \/ \E h \in Hwnds, r \in Rects : WindowMoved(h, r)
    \/ \E h \in Hwnds : WindowMinimized(h)

SpecToggle == InitToggle /\ [][NextToggle]_vars

(***************************************************************************)
(* Startup: main builds the App with empty collections and calls run_gui,  *)
(* which loads workspaces.json under the workspaces lock, validates the    *)
(* loaded shortcuts and spawns the detection thread.                       *)
(***************************************************************************)
Init ==
    /\ workspaces = <<>>
    /\ registered_hotkeys = EmptyMap
    /\ last_hotkey_info = None
    /\ wsLock = "none"
    /\ mutexes = NoHolder
    /\ osLive = Hwnds
    /\ osPos = [h \in Hwnds |-> RectDefault]
    /\ osIconic = {}
    /\ osHotkeys = {}
    /\ keysDown = {}
    /\ phase = "start"
    /\ detPc = "unspawned"
    /\ toToggle = <<>>
    /\ detected = <<>>
    /\ tPc = "idle"
    /\ tWs = 1
    /\ tK = 1
    /\ all_at_home = FALSE
    /\ osLog = <<>>
    /\ uiPc = "idle"
    /\ uiAt = 1
    /\ uiTemp = NoTemp
    /\ uiEdits = 0
    /\ lastOp = NoOp
    /\ holdToggles = NoToggles
    /\ pairStage = 0

\* What serde_json yields for workspaces.json: every Hotkey has id None
\* (#[serde(skip)]); the other fields are whatever the file holds.
FileWorkspace(n, text, hwnd, disabled) ==
    Workspace(WsName(n), Some(Hotkey(text, None)),
              <<Window(hwnd, RectDefault, RectB, TRUE)>>, disabled, TRUE)

\* The contents of workspaces.json the model starts from; a missing or
\* unreadable file loads as the empty list.
Files == {
    <<>>,
    <<FileWorkspace(1, <<"Ctrl", "A">>, 1, FALSE)>>,
    <<FileWorkspace(1, <<"Ctrl", "A">>, 1, FALSE),
      FileWorkspace(2, <<"Ctrl", "A">>, 2, TRUE)>> }

\* run_gui takes the workspaces lock and calls load_workspaces, which parses
\* the file into a local list.
LoadFile(file) ==
    /\ phase = "start"
    /\ wsLock = "none"
    /\ wsLock' = "ui"
    /\ UNCHANGED mutexes
    /\ workspaces' = file
    /\ uiAt' = 1
    /\ phase' = "loading"
    /\ UNCHANGED <<last_hotkey_info, keysDown, uiPc, uiTemp, uiEdits, holdToggles, pairStage,
                   regVars, winVars, detVars, togVars>>

\* load_workspaces, one pass of `for (i, workspace) in workspaces.iter_mut()`:
\* hotkey.register(app, i as i32) if the workspace has a hotkey.
LoadRegister ==
    /\ phase = "loading"
    /\ uiAt <= Len(workspaces)
    /\ IF IsSome(workspaces[uiAt].hotkey)
       THEN LET r == HotkeyRegister(Unwrap(workspaces[uiAt].hotkey), uiAt - 1,
                                    osHotkeys, registered_hotkeys)
            IN  /\ workspaces' = [workspaces EXCEPT ![uiAt].hotkey = Some(r.hotkey)]
                /\ osHotkeys' = r.os
                /\ registered_hotkeys' = r.reg
                /\ lastOp' = RegistryCall("register", uiAt, r.ok, workspaces[uiAt].hotkey)
       ELSE UNCHANGED <<workspaces, regVars>>
    /\ uiAt' = uiAt + 1
    /\ UNCHANGED <<last_hotkey_info, wsLock, mutexes, keysDown, phase, uiPc, uiTemp, uiEdits, holdToggles,
                   pairStage, winVars, detVars, togVars>>

\* load_workspaces returns, run_gui stores the list and drops the lock.
LoadReturn ==
    /\ phase = "loading"
    /\ uiAt > Len(workspaces)
    /\ phase' = "loaded"
    /\ wsLock' = "none"
    /\ UNCHANGED mutexes
    /\ UNCHANGED <<workspaces, last_hotkey_info, keysDown, holdToggles, pairStage,
                   regVars, winVars, detVars, togVars, uiVars>>

\* validate_initial_hotkeys: set_hotkey of every workspace with its own text.
validate_initial_hotkeys(wss) ==
    [i \in 1..Len(wss) |->
        IF IsSome(wss[i].hotkey)
        THEN set_hotkey(wss[i], Unwrap(wss[i].hotkey).key_sequence)
        ELSE wss[i]]

\* run_gui after the load: validate_initial_hotkeys, then spawn the thread
\* running loop { check_hotkeys; sleep(100 ms) } and enter the GUI.
RunGuiSpawn ==
    /\ phase = "loaded"
    /\ wsLock = "none"
    /\ workspaces' = validate_initial_hotkeys(workspaces)
    /\ detPc' = "poll"
    /\ phase' = "running"
    /\ UNCHANGED <<last_hotkey_info, wsLock, mutexes, keysDown, toToggle, detected, holdToggles,
                   pairStage, regVars, winVars, togVars, uiVars>>

(***************************************************************************)
(* The detection thread: check_hotkeys in its three lock-delimited parts.  *)
(***************************************************************************)
Alive == phase \in {"running", "gui_closed"}

\* The positions check_hotkeys collects, in list order.
RECURSIVE PressedFrom(_, _, _)
PressedFrom(wss, i, down) ==
    IF i > Len(wss) THEN <<>>
    ELSE (IF ~wss[i].disabled /\ IsSome(wss[i].hotkey)
             /\ is_hotkey_pressed(Unwrap(wss[i].hotkey).key_sequence, down)
          THEN <<i>> ELSE <<>>) \o PressedFrom(wss, i + 1, down)

\* What the poll collected: each position with the name of the workspace
\* that stood there.
Collected(wss, positions) ==
    [n \in 1..Len(positions) |->
        [index |-> positions[n], name |-> wss[positions[n]].name]]

Bump(count, positions) ==
    [i \in 1..MaxWorkspaces |->
        IF \E n \in 1..Len(positions) : positions[n] = i
        THEN Min(count[i] + 1, MaxCount) ELSE count[i]]

\* check_hotkeys, first part: lock, collect the pressed enabled workspaces,
\* remember the last pressed shortcut, drop the lock.
DetDetect ==
    /\ Alive
    /\ detPc = "poll"
    /\ wsLock = "none"
    /\ LET found == PressedFrom(workspaces, 1, keysDown)
       IN  /\ toToggle' = found
           /\ detected' = Collected(workspaces, found)
           /\ last_hotkey_info' =
                IF found = <<>> THEN last_hotkey_info
                ELSE Some(Unwrap(workspaces[found[Len(found)]].hotkey).key_sequence)
           /\ holdToggles' = Bump(holdToggles, found)
    /\ detPc' = "relock"
    /\ UNCHANGED <<workspaces, wsLock, mutexes, keysDown, phase, pairStage, regVars, winVars,
                   togVars, uiVars>>

\* A dispatch phase that goes on without taking the workspaces lock again.
DetRelockWithoutLock ==
    /\ Alive
    /\ detPc = "relock"
    /\ detPc' = "dispatch"
    /\ UNCHANGED <<workspaces, last_hotkey_info, wsLock, mutexes, keysDown, phase, toToggle,
                   detected, holdToggles, pairStage, regVars, winVars, togVars, uiVars>>

\* check_hotkeys, second lock().
DetRelock ==
    /\ Alive
    /\ detPc = "relock"
    /\ wsLock = "none"
    /\ wsLock' = "det"
    /\ UNCHANGED mutexes
    /\ detPc' = "dispatch"
    /\ UNCHANGED <<workspaces, last_hotkey_info, keysDown, phase, toToggle, detected,
                   holdToggles, pairStage, regVars, winVars, togVars, uiVars>>

\* A dispatch loop that indexes the list (workspaces[index]) and so panics,
\* holding the lock, on a position that is no longer in range.
DetDispatchNextIndexing ==
    /\ Alive
    /\ detPc = "dispatch"
    /\ tPc \in {"idle", "done"}
    /\ IF toToggle = <<>>
       THEN /\ wsLock' = "none"
            /\ UNCHANGED mutexes
            /\ detPc' = "poll"
            /\ tPc' = "idle"
            /\ tWs' = 1
            /\ tK' = 1
            /\ all_at_home' = FALSE
            /\ osLog' = <<>>
            /\ detected' = <<>>
            /\ UNCHANGED toToggle
       ELSE /\ toToggle' = Tail(toToggle)
            /\ IF Head(toToggle) <= Len(workspaces)
               THEN tWs' = Head(toToggle) /\ tPc' = "decide"
               ELSE UNCHANGED <<tWs, tPc>>
            /\ detPc' = IF Head(toToggle) <= Len(workspaces) THEN detPc ELSE "panicked"
            /\ UNCHANGED <<wsLock, mutexes, detected, tK, all_at_home, osLog>>
    /\ UNCHANGED <<workspaces, last_hotkey_info, keysDown, phase, holdToggles, pairStage,
                   regVars, winVars, uiVars>>

\* check_hotkeys, `for index in workspaces_to_toggle`: toggle the workspace at
\* the index if there is one; after the last index the guard is dropped and
\* the thread sleeps until the next poll; the locals of the finished toggle are
\* gone.
DetDispatchNext ==
    /\ Alive
    /\ detPc = "dispatch"
    /\ tPc \in {"idle", "done"}
    /\ IF toToggle = <<>>
       THEN /\ wsLock' = "none"
            /\ UNCHANGED mutexes
            /\ detPc' = "poll"
            /\ tPc' = "idle"
            /\ tWs' = 1
            /\ tK' = 1
            /\ all_at_home' = FALSE
            /\ osLog' = <<>>
            /\ detected' = <<>>
            /\ UNCHANGED toToggle
       ELSE /\ toToggle' = Tail(toToggle)
            /\ IF Head(toToggle) <= Len(workspaces)
               THEN tWs' = Head(toToggle) /\ tPc' = "decide"
               ELSE UNCHANGED <<tWs, tPc>>
            /\ UNCHANGED <<wsLock, mutexes, detPc, detected, tK, all_at_home, osLog>>
    /\ UNCHANGED <<workspaces, last_hotkey_info, keysDown, phase, holdToggles, pairStage,
                   regVars, winVars, uiVars>>

(***************************************************************************)
(* The UI thread: App::update. One frame handles at most one user input;   *)
(* the frame holds the workspaces lock from the start of the scroll area   *)
(* to its end, blocking dialogs included. Collapsing headers are open.     *)
(***************************************************************************)
\* The shortcut texts typed into the hotkey field: a valid one, one that is
\* bound by another application, and one that does not validate.
Texts == {<<"Ctrl", "A">>, <<"Ctrl", "Alt", "B">>, <<"Ctrl">>}

\* What a frame carries from workspace to workspace: the list, the OS hot key
\* table, registered_hotkeys and the egui temp_hotkey memory.
Acc(wss, os, reg, temp) == [wss |-> wss, os |-> os, reg |-> reg, temp |-> temp]

Input(kind, i, j, text) == [kind |-> kind, i |-> i, j |-> j, text |-> text]

RemoveAt(s, j) == [k \in 1..(Len(s) - 1) |-> IF k < j THEN s[k] ELSE s[k + 1]]

Swap(s, a, b) == [s EXCEPT ![a] = s[b], ![b] = s[a]]

\* A validity that wants every window of the workspace live.
is_workspace_valid_all_live(workspace) ==
    /\ IsSome(workspace.hotkey)
    /\ is_valid_key_combo(Unwrap(workspace.hotkey).key_sequence)
    /\ \A k \in 1..Len(workspace.windows) : IsWindow(workspace.windows[k].id)

\* is_workspace_valid of the frame: a valid shortcut and some live window.
is_workspace_valid(workspace) ==
    /\ IsSome(workspace.hotkey)
    /\ is_valid_key_combo(Unwrap(workspace.hotkey).key_sequence)
    /\ \E k \in 1..Len(workspace.windows) : IsWindow(workspace.windows[k].id)

\* temp_hotkey: the text just typed, else the text kept in egui memory under
\* the workspace's position, else the workspace's shortcut or "None".
temp_hotkey(workspace, stored, input, i) ==
    IF input.kind = "type" /\ input.i = i THEN input.text
    ELSE IF IsSome(stored) THEN Unwrap(stored)
    ELSE IF IsSome(workspace.hotkey) THEN Unwrap(workspace.hotkey).key_sequence
    ELSE <<"None">>

\* register_hotkey(app, id, hotkey) as the registry contract describes it: ask
\* the OS to bind the combination to the id and on success store the mapping.
register_hotkey(id, hotkey, os, reg) ==
    LET p == ParseForRegister(hotkey.key_sequence, 0, None)
    IN  IF IsSome(p.vk_code) /\ RegisterHotKeyOk(os, p.modifiers, Unwrap(p.vk_code))
        THEN [os |-> os \cup {[id |-> id, mods |-> p.modifiers, vk |-> Unwrap(p.vk_code)]},
              reg |-> MapInsert(reg, hotkey.key_sequence, id)]
        ELSE [os |-> os, reg |-> reg]

\* unregister_hotkey(app, id) as the registry contract describes it: release
\* the OS binding of the id and remove its mappings; nothing if already released.
unregister_hotkey(id, os, reg) ==
    IF UnregisterHotKeyOk(os, id)
    THEN {[os |-> o, reg |-> [x \in {y \in DOMAIN reg : reg[y] # id} |-> reg[x]]] :
            o \in UnregisterHotKeyResults(os, id)}
    ELSE {[os |-> os, reg |-> reg]}

\* The body of the per-workspace loop up to the "Capture Active Window"
\* button: valid recomputed, set_hotkey(temp_hotkey), every window's valid
\* flag refreshed from IsWindow, the window whose Delete was clicked removed.
WsBeforeCapture(acc, i, input) ==
    LET w0 == acc.wss[i]
        w1 == [w0 EXCEPT !.valid = is_workspace_valid(w0)]
        w2 == set_hotkey(w1, temp_hotkey(w1, acc.temp[i], input, i))
        w3 == [w2 EXCEPT !.windows =
                 [k \in 1..Len(w2.windows) |->
                    [w2.windows[k] EXCEPT !.valid = IsWindow(w2.windows[k].id)]]]
        w4 == IF input.kind = "delete_window" /\ input.i = i /\ input.j <= Len(w3.windows)
              THEN [w3 EXCEPT !.windows = RemoveAt(w3.windows, input.j)]
              ELSE w3
    IN  [acc EXCEPT !.wss[i] = w4,
                    !.temp[i] = IF input.kind = "type" /\ input.i = i
                                THEN Some(input.text) ELSE @]

\* workspace.windows.push(Window { id, title, home: (0,0,800,600),
\* target: (0,0,800,600), valid: false }) after a confirmed capture.
WsCapture(acc, i, hwnd) ==
    [acc EXCEPT !.wss[i].windows =
        Append(@, Window(hwnd, RectDefault, RectDefault, FALSE))]

\* The body after the capture button: the Disable checkbox, then
\* unregister_hotkey for a disabled workspace and register_hotkey otherwise.
WsAfterCapture(acc, i, input) ==
    LET ws == acc.wss[i]
        disabled == IF input.kind = "disable" /\ input.i = i
                    THEN ~ws.disabled ELSE ws.disabled
        a1 == [acc EXCEPT !.wss[i].disabled = disabled]
    IN  IF disabled
        THEN {[a1 EXCEPT !.os = r.os, !.reg = r.reg] :
                r \in unregister_hotkey(i - 1, acc.os, acc.reg)}
        ELSE IF IsSome(ws.hotkey)
        THEN LET r == register_hotkey(i - 1, Unwrap(ws.hotkey), acc.os, acc.reg)
             IN  {[a1 EXCEPT !.os = r.os, !.reg = r.reg]}
        ELSE {a1}

\* The per-workspace loop over the positions from..to.
RECURSIVE FrameRange(_, _, _, _)
FrameRange(acc, from, to, input) ==
    IF from > to THEN {acc}
    ELSE UNION {FrameRange(a, from + 1, to, input) :
                  a \in WsAfterCapture(WsBeforeCapture(acc, from, input), from, input)}

\* After the loop: swap for Move Up / Move Down, push the new workspace,
\* remove the workspace whose deletion was confirmed (0 for none).
FrameEnd(wss, input, workspace_to_delete) ==
    LET s1 == IF input.kind = "move_up" /\ input.i > 1
              THEN Swap(wss, input.i, input.i - 1) ELSE wss
        s2 == IF input.kind = "move_down" /\ input.i < Len(s1)
              THEN Swap(s1, input.i, input.i + 1) ELSE s1
        s3 == IF input.kind = "add"
              THEN Append(s2, Workspace(WsName(Len(wss) + 1), None, <<>>, FALSE, FALSE))
              ELSE s2
    IN  IF workspace_to_delete # 0 THEN RemoveAt(s3, workspace_to_delete) ELSE s3

\* The inputs a frame can carry for the list as it is.
FrameInputs ==
    {Input("repaint", 0, 0, <<>>)}
    \cup {Input("type", i, 0, t) : i \in 1..Len(workspaces), t \in Texts}
    \cup {Input("disable", i, 0, <<>>) : i \in 1..Len(workspaces)}
    \cup {Input("delete_window", i, j, <<>>) :
            i \in 1..Len(workspaces), j \in 1..MaxWindows}
    \cup {Input("move_up", i, 0, <<>>) : i \in 2..Len(workspaces)}
    \cup {Input("move_down", i, 0, <<>>) : i \in 1..(Len(workspaces) - 1)}
    \cup (IF Len(workspaces) < MaxWorkspaces THEN {Input("add", 0, 0, <<>>)} ELSE {})

\* The activation counts stand for the list as detection saw it.
CountsAfter(wss) == IF wss = workspaces THEN holdToggles ELSE NoToggles

\* One frame without a blocking dialog.
UiFrame(input) ==
    /\ phase = "running"
    /\ uiPc = "idle"
    /\ wsLock = "none"
    /\ input.kind = "delete_window" => input.j <= Len(workspaces[input.i].windows)
    /\ input.kind # "repaint" => uiEdits < MaxEdits
    /\ uiEdits' = IF input.kind = "repaint" THEN uiEdits ELSE uiEdits + 1
    /\ \E a \in FrameRange(Acc(workspaces, osHotkeys, registered_hotkeys, uiTemp),
                           1, Len(workspaces), input) :
         /\ workspaces' = FrameEnd(a.wss, input, 0)
         /\ osHotkeys' = a.os
         /\ registered_hotkeys' = a.reg
         /\ uiTemp' = a.temp
    /\ holdToggles' = CountsAfter(workspaces')
    /\ UNCHANGED <<last_hotkey_info, wsLock, mutexes, keysDown, phase, uiPc, uiAt, lastOp,
                   pairStage, winVars, detVars, togVars>>

NoInput == Input("repaint", 0, 0, <<>>)

\* A frame in which "Capture Active Window" (listen_for_keys_with_dialog) or
\* "Delete Workspace" (show_confirmation_box) of workspace i is clicked: the
\* loop runs up to the button and the thread waits in the dialog, holding the
\* lock.
UiOpenDialog(kind, i) ==
    /\ phase = "running"
    /\ uiPc = "idle"
    /\ wsLock = "none"
    /\ i \in 1..Len(workspaces)
    /\ kind = "capture" => Len(workspaces[i].windows) < MaxWindows
    /\ uiEdits < MaxEdits
    /\ uiEdits' = uiEdits + 1
    /\ \E a0 \in FrameRange(Acc(workspaces, osHotkeys, registered_hotkeys, uiTemp),
                            1, i - 1, NoInput) :
         \E a \in (IF kind = "capture"
                   THEN {WsBeforeCapture(a0, i, NoInput)}
                   ELSE WsAfterCapture(WsBeforeCapture(a0, i, NoInput), i, NoInput)) :
            /\ workspaces' = a.wss
            /\ osHotkeys' = a.os
            /\ registered_hotkeys' = a.reg
            /\ uiTemp' = a.temp
    /\ wsLock' = "ui"
    /\ UNCHANGED mutexes
    /\ uiPc' = kind
    /\ uiAt' = i
    /\ holdToggles' = CountsAfter(workspaces')
    /\ UNCHANGED <<last_hotkey_info, keysDown, phase, lastOp, pairStage, winVars,
                   detVars, togVars>>

\* The capture dialog returns: hwnd is the foreground window after "Enter",
\* 0 when the capture was cancelled, there is no foreground window or it is
\* the application's own. The rest of the frame follows.
UiCloseCapture(hwnd) ==
    /\ phase = "running"
    /\ uiPc = "capture"
    /\ LET a0 == Acc(workspaces, osHotkeys, registered_hotkeys, uiTemp)
           a1 == IF hwnd = 0 THEN a0 ELSE WsCapture(a0, uiAt, hwnd)
       IN  \E a2 \in WsAfterCapture(a1, uiAt, NoInput) :
           \E a \in FrameRange(a2, uiAt + 1, Len(workspaces), NoInput) :
             /\ workspaces' = FrameEnd(a.wss, NoInput, 0)
             /\ osHotkeys' = a.os
             /\ registered_hotkeys' = a.reg
             /\ uiTemp' = a.temp
    /\ wsLock' = "none"
    /\ UNCHANGED mutexes
    /\ uiPc' = "idle"
    /\ holdToggles' = CountsAfter(workspaces')
    /\ UNCHANGED <<last_hotkey_info, keysDown, phase, uiAt, uiEdits, lastOp, pairStage, winVars,
                   detVars, togVars>>

\* The confirmation box returns; the rest of the frame follows and the
\* workspace is removed after the loop if the answer was yes.
UiCloseConfirm(yes) ==
    /\ phase = "running"
    /\ uiPc = "confirm_delete"
    /\ \E a \in FrameRange(Acc(workspaces, osHotkeys, registered_hotkeys, uiTemp),
                           uiAt + 1, Len(workspaces), NoInput) :
         /\ workspaces' = FrameEnd(a.wss, NoInput, IF yes THEN uiAt ELSE 0)
         /\ osHotkeys' = a.os
         /\ registered_hotkeys' = a.reg
         /\ uiTemp' = a.temp
    /\ wsLock' = "none"
    /\ UNCHANGED mutexes
    /\ uiPc' = "idle"
    /\ holdToggles' = CountsAfter(workspaces')
    /\ UNCHANGED <<last_hotkey_info, keysDown, phase, uiAt, uiEdits, lastOp, pairStage, winVars,
                   detVars, togVars>>

(***************************************************************************)
(* Shutdown: the GUI is closed, eframe::run_native and run_gui return and  *)
(* main returns, which ends the process and the detection thread with it.  *)
(***************************************************************************)
GuiClose ==
    /\ phase = "running"
    /\ uiPc = "idle"
    /\ phase' = "gui_closed"
    /\ UNCHANGED <<workspaces, last_hotkey_info, wsLock, mutexes, keysDown, holdToggles,
                   pairStage, regVars, winVars, detVars, togVars, uiVars>>

\* osHotkeys keeps the bindings the program had not released when it ended.
ProcessExit ==
    /\ phase = "gui_closed"
    /\ phase' = "exited"
    /\ UNCHANGED <<workspaces, last_hotkey_info, wsLock, mutexes, keysDown, holdToggles,
                   pairStage, regVars, winVars, detVars, togVars, uiVars>>

Next ==
    \/ \E file \in Files : LoadFile(file)
    \/ LoadRegister
    \/ LoadReturn
    \/ RunGuiSpawn
    \/ DetDetect
    \/ DetRelock
    \/ DetDispatchNext
    \/ ToggleDecide
    \/ ToggleWindow
    \/ \E input \in FrameInputs : UiFrame(input)
    \/ \E kind \in {"capture", "confirm_delete"}, i \in 1..MaxWorkspaces :
         UiOpenDialog(kind, i)
    \/ \E hwnd \in 0..MaxHwnd : UiCloseCapture(hwnd)
    \/ \E yes \in BOOLEAN : UiCloseConfirm(yes)
    \/ \E k \in PhysKeys : KeyPress(k)
    \/ \E k \in PhysKeys : KeyRelease(k)
    \/ \E h \in Hwnds : WindowClose(h)
    \/ GuiClose
    \/ ProcessExit

Spec == Init /\ [][Next]_vars

(***************************************************************************)
(* The registry on its own: workspaces.json with any of a few shortcut     *)
(* texts is loaded, then Workspace::set_hotkey, Hotkey::register (with the *)
(* workspace's index as id, as load_workspaces does) and                   *)
(* Hotkey::unregister are called in any order.                             *)
(***************************************************************************)
\* Shortcut texts a file can hold (serde does not validate them): two
\* spellings of one combination, a second combination, one that another
\* application has bound, and one whose key has no virtual key code.
KeyTexts ==
    {<<"Ctrl", "A">>, <<"ctrl", "A">>, <<"Ctrl", "C">>, <<"Ctrl", "Alt", "B">>,
     <<"Ctrl", "F25">>}

RegistryWorkspace(n, text) ==
    Workspace(WsName(n), Some(Hotkey(text, None)), <<>>, FALSE, FALSE)

RECURSIVE RegistryFilesOf(_)
RegistryFilesOf(n) ==
    IF n = 0 THEN {<<>>}
    ELSE {Append(f, RegistryWorkspace(n, t)) :
            f \in {g \in RegistryFilesOf(n - 1) : Len(g) = n - 1}, t \in KeyTexts}
         \cup RegistryFilesOf(n - 1)

RegistryFiles == RegistryFilesOf(MaxWorkspaces) \ {<<>>}

ApiSetHotkey(i, text) ==
    /\ phase = "loaded"
    /\ i \in 1..Len(workspaces)
    /\ workspaces' = [workspaces EXCEPT ![i] = set_hotkey(@, text)]
    /\ lastOp' = RegistryCall("set_hotkey", i, set_hotkey_ok(text), workspaces[i].hotkey)
    /\ UNCHANGED <<registered_hotkeys, osHotkeys, last_hotkey_info, wsLock, mutexes, keysDown,
                   phase, holdToggles, pairStage, winVars, detVars, togVars, uiVars>>

ApiRegister(i) ==
    /\ phase = "loaded"
    /\ i \in 1..Len(workspaces)
    /\ IsSome(workspaces[i].hotkey)
    /\ LET r == HotkeyRegister(Unwrap(workspaces[i].hotkey), i - 1,
                               osHotkeys, registered_hotkeys)
       IN  /\ workspaces' = [workspaces EXCEPT ![i].hotkey = Some(r.hotkey)]
           /\ osHotkeys' = r.os
           /\ registered_hotkeys' = r.reg
           /\ lastOp' = RegistryCall("register", i, r.ok, workspaces[i].hotkey)
    /\ UNCHANGED <<last_hotkey_info, wsLock, mutexes, keysDown, phase, holdToggles, pairStage,
                   winVars, detVars, togVars, uiVars>>

ApiUnregister(i) ==
    /\ phase = "loaded"
    /\ i \in 1..Len(workspaces)
    /\ IsSome(workspaces[i].hotkey)
    /\ \E r \in HotkeyUnregister(Unwrap(workspaces[i].hotkey), osHotkeys,
                                 registered_hotkeys) :
           /\ osHotkeys' = r.os
           /\ registered_hotkeys' = r.reg
           /\ lastOp' = RegistryCall("unregister", i, r.ok, workspaces[i].hotkey)
    /\ UNCHANGED <<workspaces, last_hotkey_info, wsLock, mutexes, keysDown, phase, holdToggles,
                   pairStage, winVars, detVars, togVars, uiVars>>

NextRegistry ==
    \/ \E file \in RegistryFiles : LoadFile(file)
    \/ LoadRegister
    \/ LoadReturn
    \/ \E i \in 1..MaxWorkspaces, text \in KeyTexts : ApiSetHotkey(i, text)
    \/ \E i \in 1..MaxWorkspaces : ApiRegister(i)
    \/ \E i \in 1..MaxWorkspaces : ApiUnregister(i)

SpecRegistry == Init /\ [][NextRegistry]_vars

(***************************************************************************)
(* Claims about the toggle engine.                                         *)
(***************************************************************************)
\* The rectangles of the moves issued for the window at position k.
MovesOf(log, k) ==
    {log[n].rect : n \in {m \in 1..Len(log) : log[m].op = "move" /\ log[m].k = k}}

\* C1: toggle_workspace_windows decides once, over the windows whose handle is
\* live when it decides: all_at_home is true exactly when every live window is
\* at its home rectangle (cached valid flags play no part), and every live
\* window is then moved to its target if all_at_home and to its home otherwise.
C1_DecisionOverLiveWindows ==
    [][ /\ (tPc = "decide" /\ tPc' # "decide")
            => all_at_home' = LiveAllAtHome(workspaces[tWs])
        /\ (tPc = "window" /\ tK' = tK + 1 /\ IsWindow(workspaces[tWs].windows[tK].id))
            => MovesOf(osLog', tK) =
                 {IF all_at_home THEN workspaces[tWs].windows[tK].target
                                 ELSE workspaces[tWs].windows[tK].home}
      ]_vars

\* C2: starting with every live window at home, with every move succeeding and
\* nothing else touching the windows, the first of two consecutive toggles
\* moves every live window to its target and the second moves every live
\* window back to its home.
C2_TwoTogglesThereAndBack ==
    /\ pairStage = 2 =>
         \A k \in 1..Len(workspaces[tWs].windows) :
             IsWindow(workspaces[tWs].windows[k].id)
               => MovesOf(osLog, k) = {workspaces[tWs].windows[k].target}
    /\ pairStage = 4 =>
         \A k \in 1..Len(workspaces[tWs].windows) :
             IsWindow(workspaces[tWs].windows[k].id)
               => MovesOf(osLog, k) = {workspaces[tWs].windows[k].home}

(***************************************************************************)
(* Claims about the detection loop, the two threads and shutdown.          *)
(***************************************************************************)
\* C3: while the keyboard and the workspace list stay as they are (the
\* shortcut is held), the workspace is toggled once: no toggle starts for a
\* workspace that a second poll of the same hold collected.
C3_OneToggleForOneHold ==
    tPc = "decide" => holdToggles[tWs] <= 1

\* C4: when a toggle dispatched by check_hotkeys starts, the workspace it
\* toggles is not disabled.
C4_NoToggleOfDisabledWorkspace ==
    tPc = "decide" => ~workspaces[tWs].disabled

\* C5: whenever the toggle issues the OS calls for a live window (restore,
\* move, activate), no thread holds the workspaces mutex.
C5_NoLockDuringOsCalls ==
    [][ (tPc = "window" /\ tK' = tK + 1 /\ IsWindow(workspaces[tWs].windows[tK].id))
          => wsLock = "none" ]_vars

\* C6: neither thread can stall the other: while a toggle is inside its window
\* loop (where an OS call may never return) the detection thread does not hold
\* the lock the UI needs, and while the UI waits in a blocking dialog it does
\* not hold the lock the detection loop needs.
C6_NoThreadStallsTheOther ==
    /\ (tPc = "window" /\ phase = "running") => wsLock # "det"
    /\ uiPc \in {"capture", "confirm_delete"} => wsLock # "ui"

\* C7: the detection loop stops cooperatively: no toggle is dispatched once
\* the GUI has been closed, and the loop has returned by the time the process
\* ends.
C7_StopsCooperatively ==
    [][ /\ (tPc # "decide" /\ tPc' = "decide") => phase = "running"
        /\ (phase # "exited" /\ phase' = "exited") => detPc' \in {"unspawned", "returned"}
      ]_vars

\* C8: when the program has shut down, no hot key binding it made is left.
C8_NoBindingLeftAtExit ==
    phase = "exited" => osHotkeys = {}

(***************************************************************************)
(* Claims about the registry.                                              *)
(***************************************************************************)
\* The (modifiers, vk) a hotkey's text stands for in Hotkey::register.
CombinationOf(hotkey) ==
    LET p == ParseForRegister(hotkey.key_sequence, 0, None)
    IN  <<p.modifiers, p.vk_code>>

\* The hotkey holds a live registration: it has an id and the OS has its
\* combination bound under that id.
HoldsRegistration(hotkey) ==
    /\ IsSome(hotkey.id)
    /\ IsSome(CombinationOf(hotkey)[2])
    /\ [id |-> Unwrap(hotkey.id), mods |-> CombinationOf(hotkey)[1],
        vk |-> Unwrap(CombinationOf(hotkey)[2])] \in osHotkeys

\* C9: when set_hotkey gives a new shortcut to a workspace that holds a live
\* registration and the new shortcut is then registered, the old binding is
\* gone from the OS and the old key sequence from registered_hotkeys, and a
\* successful new registration maps the new key sequence to the workspace's id.
C9_ReassignReleasesOld ==
    [][ ( /\ lastOp.op = "set_hotkey" /\ lastOp.ok
          /\ lastOp'.n # lastOp.n /\ lastOp'.op = "register" /\ lastOp'.i = lastOp.i
          /\ IsSome(lastOp.old)
          /\ HoldsRegistration(Unwrap(lastOp.old))
          /\ Unwrap(lastOp.old).key_sequence
               # Unwrap(workspaces[lastOp.i].hotkey).key_sequence )
        => LET old == Unwrap(lastOp.old)
               new == Unwrap(workspaces'[lastOp.i].hotkey)
           IN  /\ [id |-> Unwrap(old.id), mods |-> CombinationOf(old)[1],
                   vk |-> Unwrap(CombinationOf(old)[2])] \notin osHotkeys'
               /\ old.key_sequence \notin DOMAIN registered_hotkeys'
               /\ lastOp'.ok => /\ new.id = Some(lastOp.i - 1)
                                /\ registered_hotkeys'[new.key_sequence] = lastOp.i - 1
      ]_vars

\* Some other workspace than the one at position j holds a live registration
\* of the combination of j's shortcut.
HeldByAnother(wss, j) ==
    \E i \in (1..Len(wss)) \ {j} :
        /\ IsSome(wss[i].hotkey)
        /\ HoldsRegistration(Unwrap(wss[i].hotkey))
        /\ CombinationOf(Unwrap(wss[i].hotkey)) = CombinationOf(Unwrap(wss[j].hotkey))

\* C10: a register call for a workspace whose shortcut's combination another
\* workspace holds registered returns false and changes nothing: the second
\* hotkey's id stays as it was (None), and the first workspace's hotkey, the OS
\* bindings and registered_hotkeys are unchanged.
C10_SecondRegistrationFails ==
    [][ ( /\ lastOp'.n # lastOp.n /\ lastOp'.op = "register"
          /\ HeldByAnother(workspaces, lastOp'.i) )
        => /\ ~lastOp'.ok
           /\ workspaces' = workspaces
           /\ osHotkeys' = osHotkeys
           /\ registered_hotkeys' = registered_hotkeys
      ]_vars

\* A register call has just failed for a workspace with id None whose
\* combination another workspace holds registered.
C10_Witness ==
    /\ lastOp.op = "register"
    /\ ~lastOp.ok
    /\ lastOp.i \in 1..Len(workspaces)
    /\ IsSome(workspaces[lastOp.i].hotkey)
    /\ Unwrap(workspaces[lastOp.i].hotkey).id = None
    /\ HeldByAnother(workspaces, lastOp.i)

\* C11: every live OS hot key binding of the program has an id of its own: no
\* two bindings share an id, so no workspace (ids are list indices) owns more
\* than one live registration.
C11_OneBindingPerId ==
    \A b1, b2 \in osHotkeys : b1.id = b2.id => b1 = b2

\* C12: a Hotkey has an id only while it is registered: whenever a workspace's
\* hotkey has id Some(x), the OS has the hotkey's combination bound under x
\* (new gives None, a failed register leaves None, unregister clears it).
C12_IdOnlyWhileRegistered ==
    \A i \in 1..Len(workspaces) :
        (IsSome(workspaces[i].hotkey) /\ IsSome(Unwrap(workspaces[i].hotkey).id))
          => HoldsRegistration(Unwrap(workspaces[i].hotkey))

\* The OS binding a registered hotkey stands for.
BindingOf(hotkey) ==
    [id |-> Unwrap(hotkey.id), mods |-> CombinationOf(hotkey)[1],
     vk |-> Unwrap(CombinationOf(hotkey)[2])]

\* C13: Hotkey::unregister on a hotkey whose registration is live returns true,
\* releases that OS binding and removes the hotkey's registered_hotkeys entry;
\* on a hotkey whose registration is not live (never made, already released,
\* or refused by the OS) it returns false and changes nothing.
C13_UnregisterReleasesOnce ==
    [][ (lastOp'.n # lastOp.n /\ lastOp'.op = "unregister")
        => LET h == Unwrap(workspaces[lastOp'.i].hotkey)
           IN  IF HoldsRegistration(h)
               THEN /\ lastOp'.ok
                    /\ BindingOf(h) \notin osHotkeys'
                    /\ h.key_sequence \notin DOMAIN registered_hotkeys'
               ELSE /\ ~lastOp'.ok
                    /\ osHotkeys' = osHotkeys
                    /\ registered_hotkeys' = registered_hotkeys
                    /\ workspaces' = workspaces
      ]_vars

\* C14: when the registration of a workspace's shortcut fails during the
\* load, the workspace is marked invalid (valid = FALSE), its shortcut stays
\* stored on the workspace, and the load goes on with the next workspace.
C14_FailedRegistrationMarksInvalid ==
    [][ (lastOp'.n # lastOp.n /\ lastOp'.op = "register" /\ ~lastOp'.ok)
        => /\ ~workspaces'[lastOp'.i].valid
           /\ IsSome(workspaces'[lastOp'.i].hotkey)
           /\ Unwrap(workspaces'[lastOp'.i].hotkey).key_sequence
                = Unwrap(workspaces[lastOp'.i].hotkey).key_sequence
           /\ phase' = phase
      ]_vars

\* The key of a hotkey has no virtual key code.
Untranslatable(hotkey) == CombinationOf(hotkey)[2] = None

\* The OS would refuse the hotkey's combination in the table os.
OsWouldRefuse(hotkey, os) ==
    /\ ~Untranslatable(hotkey)
    /\ ~RegisterHotKeyOk(os, CombinationOf(hotkey)[1], Unwrap(CombinationOf(hotkey)[2]))

\* C15: a register call on a hotkey whose key cannot be translated to a virtual
\* key code returns false, makes no OS binding and leaves the hotkey's id and
\* registered_hotkeys as they were; the same holds when the OS call fails.
C15_FailedRegisterChangesNothing ==
    [][ (/\ lastOp'.n # lastOp.n
         /\ lastOp'.op = "register"
         /\ LET h == Unwrap(workspaces[lastOp'.i].hotkey)
            IN  Untranslatable(h) \/ OsWouldRefuse(h, osHotkeys))
        => /\ ~lastOp'.ok
           /\ osHotkeys' = osHotkeys
           /\ registered_hotkeys' = registered_hotkeys
           /\ workspaces'[lastOp'.i].hotkey = workspaces[lastOp'.i].hotkey
      ]_vars

\* A register call on an untranslatable shortcut has just returned false while
\* another workspace holds a registration.
C15_Witness ==
    /\ lastOp.op = "register"
    /\ ~lastOp.ok
    /\ lastOp.i \in 1..Len(workspaces)
    /\ IsSome(workspaces[lastOp.i].hotkey)
    /\ Untranslatable(Unwrap(workspaces[lastOp.i].hotkey))
    /\ Unwrap(workspaces[lastOp.i].hotkey).id = None
    /\ osHotkeys # {}

(***************************************************************************)
(* Validation on its own: one workspace in any state a file or the editor  *)
(* can produce, windows that close, Workspace::validate_workspace and the  *)
(* frames of App::update that keep the list in order.                      *)
(***************************************************************************)
\* Workspace::validate_workspace(&mut self)
validate_workspace(workspace) ==
    LET hotkey_valid ==
            /\ IsSome(workspace.hotkey)
            /\ is_valid_key_combo(Unwrap(workspace.hotkey).key_sequence)
        any_valid_window ==
            \E k \in 1..Len(workspace.windows) : IsWindow(workspace.windows[k].id)
    IN  [workspace EXCEPT !.valid = hotkey_valid /\ any_valid_window]

\* A call of validate_workspace on workspace i by a holder of the list.
ValidateCall(i) ==
    /\ phase = "running"
    /\ uiPc = "idle"
    /\ wsLock = "none"
    /\ i \in 1..Len(workspaces)
    /\ workspaces' = [workspaces EXCEPT ![i] = validate_workspace(@)]
    /\ lastOp' = RegistryCall("validate", i, validate_workspace(workspaces[i]).valid,
                              workspaces[i].hotkey)
    /\ holdToggles' = CountsAfter(workspaces')
    /\ UNCHANGED <<registered_hotkeys, osHotkeys, last_hotkey_info, wsLock, mutexes, keysDown,
                   phase, pairStage, winVars, detVars, togVars, uiVars>>

\* Shortcuts a workspace can carry: none, a valid one, and one without a key
\* (a file is not validated when it is read).
ValidityHotkeys ==
    {None, Some(Hotkey(<<"Ctrl", "A">>, None)), Some(Hotkey(<<"Ctrl">>, None))}

ValidityWindows ==
    {Window(id, RectDefault, RectB, valid) : id \in Hwnds, valid \in BOOLEAN}

InitValidity ==
    /\ workspaces \in {<<Workspace(WsName(1), hotkey, windows, disabled, valid)>> :
                         hotkey \in ValidityHotkeys,
                         windows \in SeqsUpTo(ValidityWindows, MaxWindows),
                         disabled \in BOOLEAN, valid \in BOOLEAN}
    /\ osLive \in SUBSET Hwnds
    /\ osPos = [h \in Hwnds |-> RectDefault]
    /\ osIconic = {}
    /\ registered_hotkeys = EmptyMap
    /\ last_hotkey_info = None
    /\ wsLock = "none"
    /\ mutexes = NoHolder
    /\ osHotkeys = {}
    /\ keysDown = {}
    /\ phase = "running"
    /\ detPc = "unspawned"
    /\ toToggle = <<>>
    /\ detected = <<>>
    /\ tPc = "idle"
    /\ tWs = 1
    /\ tK = 1
    /\ all_at_home = FALSE
    /\ osLog = <<>>
    /\ uiPc = "idle"
    /\ uiAt = 1
    /\ uiTemp = NoTemp
    /\ uiEdits = 0
    /\ lastOp = NoOp
    /\ holdToggles = NoToggles
    /\ pairStage = 0

\* Frames whose input keeps every workspace at its position.
InPlaceInputs ==
    {input \in FrameInputs : input.kind \in {"repaint", "type", "disable", "delete_window"}}

NextValidity ==
    \/ \E i \in 1..MaxWorkspaces : ValidateCall(i)
    \/ \E input \in InPlaceInputs : UiFrame(input)
    \/ \E h \in Hwnds : WindowClose(h)

SpecValidity == InitValidity /\ [][NextValidity]_vars

\* The shortcut of a workspace is syntactically valid and one of its windows
\* has a live handle.
ValidShortcutAndLiveWindow(workspace) ==
    /\ workspace.hotkey # None
    /\ is_valid_key_combo(Unwrap(workspace.hotkey).key_sequence)
    /\ \E k \in 1..Len(workspace.windows) : workspace.windows[k].id \in osLive

\* C16: a validation (validate_workspace, or the computation at the top of a
\* frame's pass over a workspace) leaves valid true exactly when the
\* workspace, as the validation found it, has a syntactically valid shortcut
\* and at least one window with a live handle, whatever its disabled flag and
\* however many of its windows are stale.
C16_ValidIffShortcutAndLiveWindow ==
    [][ osLive' = osLive
        => \A i \in 1..Len(workspaces') :
             workspaces'[i].valid = ValidShortcutAndLiveWindow(workspaces[i])
      ]_vars

\* A validation has found a disabled workspace with one live and one stale
\* window and a valid shortcut, and has set valid.
C16_Witness ==
    /\ lastOp.op = "validate"
    /\ LET ws == workspaces[lastOp.i]
       IN  /\ ws.valid
           /\ ws.disabled
           /\ Len(ws.windows) = 2
           /\ ws.windows[1].id \in osLive
           /\ ws.windows[2].id \notin osLive

\* The entries a step appends to osLog.
NewCalls == SubSeq(osLog', Len(osLog) + 1, Len(osLog'))

\* The number of entries of a log with the given call for the window at k.
RECURSIVE CallCount(_, _, _)
CallCount(log, op, k) ==
    IF log = <<>> THEN 0
    ELSE (IF Head(log).op = op /\ Head(log).k = k THEN 1 ELSE 0)
         + CallCount(Tail(log), op, k)

\* C17: a toggle issues OS calls (restore, move, activate) for exactly the
\* windows whose handle is live when the loop examines them: a live window gets
\* its calls with one move among them, a stale one is skipped without any
\* call; every window is examined once, so that the finished toggle has for
\* each window either one move or one skip.
C17_CallsExactlyForLiveWindows ==
    [][ (tPc = "window" /\ tK' # tK)
        => LET window == workspaces[tWs].windows[tK]
           IN  /\ tK' = tK + 1
               /\ \A n \in 1..Len(NewCalls) :
                      NewCalls[n].k = tK /\ NewCalls[n].hwnd = window.id
               /\ IF window.id \in osLive
                  THEN /\ \A n \in 1..Len(NewCalls) :
                              NewCalls[n].op \in {"restore", "move", "activate"}
                       /\ CallCount(NewCalls, "move", tK) = 1
                       /\ CallCount(NewCalls, "activate", tK) = 1
                  ELSE /\ Len(NewCalls) = 1
                       /\ NewCalls[1].op = "skip"
                       /\ <<osPos', osIconic'>> = <<osPos, osIconic>>
               /\ tPc' = "done"
                    => \A k \in 1..Len(workspaces[tWs].windows) :
                          CallCount(osLog', "move", k) + CallCount(osLog', "skip", k) = 1
      ]_vars

\* A toggle of a workspace with one live and one stale window has finished:
\* one window moved, one skipped.
C17_Witness ==
    /\ tPc = "done"
    /\ Len(workspaces[tWs].windows) = 2
    /\ workspaces[tWs].windows[1].id \in osLive
    /\ workspaces[tWs].windows[2].id \notin osLive
    /\ CallCount(osLog, "move", 1) = 1
    /\ CallCount(osLog, "skip", 1) = 0
    /\ CallCount(osLog, "skip", 2) = 1
    /\ CallCount(osLog, "move", 2) + CallCount(osLog, "restore", 2)
         + CallCount(osLog, "activate", 2) = 0

\* C18: whenever a toggle takes its direction decision, the valid flag of each
\* window of the workspace equals the liveness of its handle at that moment,
\* and the workspace's valid flag equals the validity predicate.
C18_FlagsFreshAtDecision ==
    tPc = "decide"
      => /\ \A k \in 1..Len(workspaces[tWs].windows) :
              workspaces[tWs].windows[k].valid
                = (workspaces[tWs].windows[k].id \in osLive)
         /\ workspaces[tWs].valid = ValidShortcutAndLiveWindow(workspaces[tWs])

\* The calls of a log, in order.
OpsOf(log) == [n \in 1..Len(log) |-> log[n].op]

\* The log holds the call for the window at k with the given outcome.
Logged(log, op, k, ok) ==
    \E n \in 1..Len(log) : log[n].op = op /\ log[n].k = k /\ log[n].ok = ok

\* C19: the sub-steps of a live window are independent: whatever the restore
\* returns the move follows, whatever the move returns the activate follows,
\* and whatever failed the loop goes on to the next window of the workspace.
C19_SubStepsIndependent ==
    [][ (/\ tPc = "window"
         /\ tK' # tK
         /\ workspaces[tWs].windows[tK].id \in osLive)
        => /\ OpsOf(NewCalls)
                = (IF workspaces[tWs].windows[tK].id \in osIconic
                   THEN <<"restore">> ELSE <<>>) \o <<"move", "activate">>
           /\ tK' = tK + 1
           /\ tK < Len(workspaces[tWs].windows) => tPc' = "window"
      ]_vars

\* A toggle has finished in which the restore and the move of the first
\* window failed: its activate and the calls of the second window are logged.
C19_Witness ==
    /\ tPc = "done"
    /\ Len(workspaces[tWs].windows) = 2
    /\ Logged(osLog, "restore", 1, FALSE)
    /\ Logged(osLog, "move", 1, FALSE)
    /\ Logged(osLog, "activate", 1, FALSE)
    /\ CallCount(osLog, "move", 2) = 1
    /\ CallCount(osLog, "activate", 2) = 1

\* C20: the loop issues the move to the destination rectangle for every live
\* window, one move per window, whether or not the window's rectangle already
\* equals the destination.
C20_MoveIssuedUnconditionally ==
    [][ (/\ tPc = "window"
         /\ tK' # tK
         /\ workspaces[tWs].windows[tK].id \in osLive)
        => LET window == workspaces[tWs].windows[tK]
               dest == IF all_at_home THEN window.target ELSE window.home
           IN  /\ CallCount(NewCalls, "move", tK) = 1
               /\ \E n \in 1..Len(NewCalls) :
                      /\ NewCalls[n].op = "move"
                      /\ NewCalls[n].hwnd = window.id
                      /\ NewCalls[n].rect = dest
      ]_vars

\* An undisturbed toggle that began with every live window at home has
\* finished, and it moved a live window whose home and target are one
\* rectangle: the window was at its destination before the move.
C20_Witness ==
    /\ tPc = "done"
    /\ pairStage = 2
    /\ \E k \in 1..Len(workspaces[tWs].windows) :
         LET window == workspaces[tWs].windows[k]
         IN  /\ window.id \in osLive
             /\ window.home = window.target
             /\ osPos[window.id] = window.home
             /\ MovesOf(osLog, k) = {window.home}

(***************************************************************************)
(* Claims about the dispatch of detected activations.                      *)
(***************************************************************************)
\* The activation the dispatch loop takes next: toToggle is what is left of
\* the collected positions.
NextActivation == detected[Len(detected) - Len(toToggle) + 1]

\* The dispatch loop takes its next position.
DispatchStep == detPc = "dispatch" /\ toToggle # <<>> /\ toToggle' = Tail(toToggle)

\* A workspace of the list carries the name and is enabled.
EnabledInList(name) ==
    \E j \in 1..Len(workspaces) : workspaces[j].name = name /\ ~workspaces[j].disabled

\* C21: activations are processed one at a time in the order detected: the
\* dispatch loop takes the collected positions in ascending order, a poll
\* detects only when every toggle of the poll before it has finished, and an
\* activation whose workspace is still in the list and enabled gets its toggle.
C21_InOrderNothingDropped ==
    [][ /\ DispatchStep
          => /\ Head(toToggle) = NextActivation.index
             /\ \A n \in 2..Len(toToggle) : toToggle[n - 1] < toToggle[n]
             /\ tPc \in {"idle", "done"}
             /\ EnabledInList(NextActivation.name) => tPc' = "decide"
        /\ (detPc = "poll" /\ detPc' = "relock")
          => tPc \in {"idle", "done"} /\ toToggle = <<>>
      ]_vars

\* C22: last_hotkey_info is written only after the toggle of the activation
\* it records has performed its OS calls; the detection phase, before any
\* toggle of the poll has run, does not write it.
C22_LastActivatedAfterToggle ==
    [][ last_hotkey_info' # last_hotkey_info
        => /\ tPc = "done"
           /\ osLog # <<>>
           /\ detPc # "poll"
      ]_vars

\* C26: the workspace the dispatch phase toggles is the workspace whose
\* shortcut the detection phase found pressed, whatever the UI did to the
\* list between the two lock acquisitions.
C26_TogglesTheDetectedWorkspace ==
    [][ (DispatchStep /\ tPc' = "decide")
        => workspaces[tWs'].name = NextActivation.name
      ]_vars

\* A toggle called by the dispatch phase is between its call and its last move.
ToggleInProgress == detPc = "dispatch" /\ tPc \in {"decide", "window"}

\* C28: a toggle is atomic with respect to the UI: from the call of
\* toggle_workspace_windows to its last move the dispatch phase holds the
\* workspaces lock and the list (the windows, their home and target
\* rectangles, the order of the workspaces) does not change, so that every
\* move of the toggle went to the rectangle the list gives for the decision.
C28_ToggleAtomicForUi ==
    [][ ToggleInProgress
        => /\ wsLock = "det"
           /\ workspaces' = workspaces
           /\ tPc = "window"
                => \A n \in 1..Len(osLog') :
                     osLog'[n].op = "move"
                       => /\ osLog'[n].k <= Len(workspaces'[tWs'].windows)
                          /\ osLog'[n].rect
                               = target_position(workspaces'[tWs'].windows[osLog'[n].k],
                                                 all_at_home')
      ]_vars

\* A toggle has moved the first of two windows and is about to handle the
\* second, while the user still has input for the UI.
C28_Witness ==
    /\ ToggleInProgress
    /\ tPc = "window"
    /\ tK = 2
    /\ CallCount(osLog, "move", 1) = 1
    /\ uiPc = "idle"
    /\ uiEdits < MaxEdits

\* C29: a collected position that is no longer in range when the dispatch
\* loop takes it is skipped silently: no toggle starts, no window OS call is
\* made, nothing of the list or the windows changes, and the loop goes on,
\* holding the lock, with the positions left.
C29_OutOfRangeSkipped ==
    [][ (DispatchStep /\ Head(toToggle) > Len(workspaces))
        => /\ <<tPc, tWs, tK, osLog>>' = <<tPc, tWs, tK, osLog>>
           /\ <<osLive, osPos, osIconic>>' = <<osLive, osPos, osIconic>>
           /\ workspaces' = workspaces
           /\ detPc' = "dispatch"
           /\ wsLock' = wsLock
           /\ phase' = phase
      ]_vars

\* The dispatch loop is through with a poll all of whose positions were out
\* of range: the list shrank below the one collected and no toggle ran.
C29_Witness ==
    /\ detPc = "dispatch"
    /\ toToggle = <<>>
    /\ detected # <<>>
    /\ \A n \in 1..Len(detected) : detected[n].index > Len(workspaces)
    /\ tPc = "idle"
    /\ wsLock = "det"

\* A step of the running detection thread: check_hotkeys or the toggle it
\* calls moves on.
DetectionStep ==
    /\ detPc # "unspawned"
    /\ <<detPc, toToggle, tPc, tK>>' # <<detPc, toToggle, tPc, tK>>

\* C30: check_hotkeys and toggle_workspace_windows leave the stored workspaces
\* (and the registry) as they are; of the shared state they write only
\* last_hotkey_info, and that in a poll that found a shortcut pressed: a poll
\* that found none leaves last_hotkey_info alone and issues no window OS call.
C30_DetectionWritesOnlyLastHotkeyInfo ==
    [][ /\ DetectionStep
          => /\ workspaces' = workspaces
             /\ registered_hotkeys' = registered_hotkeys
             /\ osHotkeys' = osHotkeys
             /\ (toToggle' = <<>> /\ detected' = <<>>)
                  => /\ last_hotkey_info' = last_hotkey_info
                     /\ osLog' = <<>>
                     /\ <<osLive, osPos, osIconic>>' = <<osLive, osPos, osIconic>>
        /\ last_hotkey_info' # last_hotkey_info => DetectionStep
      ]_vars

\* A poll that found no shortcut pressed is in its dispatch phase, after an
\* earlier poll recorded an activation.
C30_Witness ==
    /\ detPc = "dispatch"
    /\ detected = <<>>
    /\ toToggle = <<>>
    /\ IsSome(last_hotkey_info)
    /\ \E i \in 1..Len(workspaces) : ~workspaces[i].disabled /\ IsSome(workspaces[i].hotkey)
    /\ osLog = <<>>

(***************************************************************************)
(* Shortcut texts on their own: one workspace whose shortcut text, read    *)
(* from a file and so not validated, is any short sequence of tokens; the  *)
(* text goes through Hotkey::new (as validate_initial_hotkeys passes it),  *)
(* Hotkey::register and, once the detection thread runs, through           *)
(* is_hotkey_pressed while keys go down and up.                            *)
(***************************************************************************)
\* Tokens of the texts: modifiers in the pattern's casing and in another, a
\* terminal key, and a key name outside the vocabulary.
KeyTokens == {"Ctrl", "ctrl", "Alt", "Win", "A", "F25"}

\* Texts longer than MaxTokens: all four modifiers with a key, and a fifth
\* modifier group.
LongTexts == {<<"Ctrl", "Alt", "Shift", "Win", "A">>,
              <<"Ctrl", "Alt", "Shift", "Win", "Ctrl", "A">>}

KeyInputs == (SeqsUpTo(KeyTokens, MaxTokens) \ {<<>>}) \cup LongTexts

InitKeys ==
    /\ workspaces \in {<<Workspace(WsName(1), Some(Hotkey(text, None)), <<>>, FALSE, FALSE)>> :
                         text \in KeyInputs}
    /\ registered_hotkeys = EmptyMap
    /\ last_hotkey_info = None
    /\ wsLock = "none"
    /\ mutexes = NoHolder
    /\ osLive = Hwnds
    /\ osPos = [h \in Hwnds |-> RectDefault]
    /\ osIconic = {}
    /\ osHotkeys = {}
    /\ keysDown = {}
    /\ phase = "loaded"
    /\ detPc = "unspawned"
    /\ toToggle = <<>>
    /\ detected = <<>>
    /\ tPc = "idle"
    /\ tWs = 1
    /\ tK = 1
    /\ all_at_home = FALSE
    /\ osLog = <<>>
    /\ uiPc = "idle"
    /\ uiAt = 1
    /\ uiTemp = NoTemp
    /\ uiEdits = 0
    /\ lastOp = NoOp
    /\ holdToggles = NoToggles
    /\ pairStage = 0

\* validate_initial_hotkeys, one pass of its loop: the workspace's hotkey is
\* formatted and handed to Workspace::set_hotkey.
ApiNewHotkey(i) ==
    /\ phase = "loaded"
    /\ i \in 1..Len(workspaces)
    /\ IsSome(workspaces[i].hotkey)
    /\ LET text == HotkeyDisplay(Unwrap(workspaces[i].hotkey))
       IN  /\ workspaces' = [workspaces EXCEPT ![i] = set_hotkey(@, text)]
           /\ lastOp' = RegistryCall("set_hotkey", i, set_hotkey_ok(text),
                                     workspaces[i].hotkey)
    /\ UNCHANGED <<registered_hotkeys, osHotkeys, last_hotkey_info, wsLock, mutexes, keysDown,
                   phase, holdToggles, pairStage, winVars, detVars, togVars, uiVars>>

\* The keys of the keyboard that the texts of KeyTokens name.
TextKeys == {VK_CONTROL, VK_MENU, 65}

NextKeys ==
    \/ \E i \in 1..MaxWorkspaces : ApiNewHotkey(i)
    \/ \E i \in 1..MaxWorkspaces : ApiRegister(i)
    \/ \E i \in 1..MaxWorkspaces : ApiUnregister(i)
    \/ RunGuiSpawn
    \/ DetDetect
    \/ DetRelock
    \/ DetDispatchNext
    \/ ToggleDecide
    \/ \E k \in TextKeys : KeyPress(k)
    \/ \E k \in TextKeys : KeyRelease(k)

SpecKeys == InitKeys /\ [][NextKeys]_vars

(***************************************************************************)
(* Claims about shortcut texts.                                            *)
(***************************************************************************)
\* A call of Workspace::set_hotkey (and so of Hotkey::new) has just returned.
NewHotkeyStep == lastOp'.n # lastOp.n /\ lastOp'.op = "set_hotkey"

\* A call of Hotkey::register has just returned.
RegisterStep == lastOp'.n # lastOp.n /\ lastOp'.op = "register"

\* The text of the hotkey the call of the step was made on.
TextOfStep == Unwrap(workspaces[lastOp'.i].hotkey).key_sequence

\* Zero to four modifier tokens, each at most once, then one terminal key.
ModifiersOnceThenKey(text) ==
    /\ Len(text) >= 1
    /\ Len(text) <= 5
    /\ text[Len(text)] \in RegexKeys
    /\ \A k \in 1..(Len(text) - 1) : text[k] \in {"Ctrl", "Alt", "Shift", "Win"}
    /\ \A k, l \in 1..(Len(text) - 1) : text[k] = text[l] => k = l

\* C23: Hotkey::new accepts exactly the texts made of zero to four modifier
\* tokens of {Ctrl, Alt, Shift, Win}, each at most once and in any order,
\* followed by one terminal key of the vocabulary; every other text (a
\* repeated modifier, a fifth modifier, no terminal key, an unknown token) is
\* rejected and leaves the workspace's hotkey as it was.
C23_AcceptsModifiersOnceThenKey ==
    [][ NewHotkeyStep
        => /\ lastOp'.ok = ModifiersOnceThenKey(TextOfStep)
           /\ ~lastOp'.ok => workspaces' = workspaces
      ]_vars

\* A token with a modifier put in the casing of the pattern.
CanonicalToken(token) ==
    CASE Lower(token) = "ctrl" -> "Ctrl"
      [] Lower(token) = "alt" -> "Alt"
      [] Lower(token) = "shift" -> "Shift"
      [] Lower(token) = "win" -> "Win"
      [] OTHER -> token

CanonicalCasing(text) == [k \in 1..Len(text) |-> CanonicalToken(text[k])]

\* A poll of check_hotkeys has just collected its positions.
DetectStep == detPc = "poll" /\ detPc' = "relock"

\* C24: the casing of the modifier tokens makes no difference anywhere: for
\* every text, validation (Hotkey::new), registration (Hotkey::register) and
\* detection (is_hotkey_pressed) give what they give for the text with its
\* modifiers in canonical casing.
C24_ModifierCasingIrrelevant ==
    [][ /\ NewHotkeyStep
          => lastOp'.ok = is_valid_key_combo(CanonicalCasing(TextOfStep))
        /\ RegisterStep
          => LET hotkey == Unwrap(workspaces[lastOp'.i].hotkey)
                 canonical == [hotkey EXCEPT !.key_sequence = CanonicalCasing(@)]
             IN  /\ CombinationOf(hotkey) = CombinationOf(canonical)
                 /\ lastOp'.ok = HotkeyRegister(canonical, lastOp'.i - 1, osHotkeys,
                                                registered_hotkeys).ok
        /\ DetectStep
          => \A i \in 1..Len(workspaces) :
               (\E n \in 1..Len(toToggle') : toToggle'[n] = i)
                 = (/\ ~workspaces[i].disabled
                    /\ IsSome(workspaces[i].hotkey)
                    /\ is_hotkey_pressed(
                         CanonicalCasing(Unwrap(workspaces[i].hotkey).key_sequence),
                         keysDown))
      ]_vars

\* How often a token occurs among the modifiers (all but the last token).
ModifierCount(text, token) ==
    Cardinality({k \in 1..(Len(text) - 1) : text[k] = token})

\* Two texts that differ at most in the order of their modifiers.
SameUpToModifierOrder(s, t) ==
    /\ Len(s) = Len(t)
    /\ s[Len(s)] = t[Len(t)]
    /\ \A k \in 1..(Len(s) - 1) : ModifierCount(s, s[k]) = ModifierCount(t, s[k])

\* C25: a text accepted by Hotkey::new comes back unchanged when the Hotkey is
\* formatted; and register computes, for an accepted text, the modifier bits
\* and the key code it computes for every accepted text that differs from it
\* only in the order of the modifiers.
C25_RoundTripAndOrderIndependence ==
    [][ /\ (NewHotkeyStep /\ lastOp'.ok)
          => HotkeyDisplay(Unwrap(workspaces'[lastOp'.i].hotkey)) = TextOfStep
        /\ (RegisterStep /\ is_valid_key_combo(TextOfStep))
          => \A other \in KeyInputs :
               (is_valid_key_combo(other) /\ SameUpToModifierOrder(TextOfStep, other))
                 => LET r == HotkeyRegister(Hotkey(other, None), lastOp'.i - 1,
                                            osHotkeys, registered_hotkeys)
                    IN  /\ r.ok = lastOp'.ok
                        /\ r.os = osHotkeys'
      ]_vars

\* Alt+Ctrl+A, a text Hotkey::new accepts, has been registered: the binding
\* is the one of Ctrl+Alt+A.
C25_Witness ==
    /\ lastOp.op = "register"
    /\ lastOp.ok
    /\ workspaces[lastOp.i].hotkey
         = Some(Hotkey(<<"Alt", "Ctrl", "A">>, Some(lastOp.i - 1)))
    /\ [id |-> lastOp.i - 1, mods |-> MOD_CONTROL + MOD_ALT, vk |-> 65] \in osHotkeys


(***************************************************************************)
(* The mutexes of App, one step per lock() and per guard going out of      *)
(* scope: startup on the main thread, the frames of the UI thread with the *)
(* Add New Workspace and Save Workspaces buttons, and check_hotkeys on the *)
(* detection thread. wsLock is the workspaces mutex, mutexes the others. A *)
(* thread about to call lock() stands at a position named *_wait.          *)
(***************************************************************************)
\* The positions of a frame once "Add New Workspace" was clicked in it: the
\* frame carries new_workspace_to_add to the end of the scroll area.
WithAdd == [label_wait |-> "label_wait_add", label_held |-> "label_held_add",
            scroll_wait |-> "scroll_wait_add", editing |-> "editing_add",
            reg_wait |-> "reg_wait_add", reg_held |-> "reg_held_add"]

AddPending == \E s \in DOMAIN WithAdd : WithAdd[s] = uiPc

\* The position of the UI thread in the frame, new_workspace_to_add apart.
UiStage == IF AddPending THEN CHOOSE s \in DOMAIN WithAdd : WithAdd[s] = uiPc ELSE uiPc

StagePc(stage, add) == IF add THEN WithAdd[stage] ELSE stage

\* Hotkey::register up to its lock(): RegisterHotKey, and self.id on success;
\* a registration the OS refuses returns without touching registered_hotkeys.
LkLoadRegister ==
    /\ phase = "loading"
    /\ uiPc = "idle"
    /\ uiAt <= Len(workspaces)
    /\ IF IsSome(workspaces[uiAt].hotkey)
       THEN LET r == HotkeyRegister(Unwrap(workspaces[uiAt].hotkey), uiAt - 1,
                                    osHotkeys, registered_hotkeys)
            IN  /\ workspaces' = [workspaces EXCEPT ![uiAt].hotkey = Some(r.hotkey)]
                /\ osHotkeys' = r.os
                /\ lastOp' = RegistryCall("register", uiAt, r.ok, workspaces[uiAt].hotkey)
                /\ uiPc' = IF r.ok THEN "insert_wait" ELSE "idle"
                /\ uiAt' = IF r.ok THEN uiAt ELSE uiAt + 1
       ELSE /\ uiAt' = uiAt + 1
            /\ UNCHANGED <<workspaces, osHotkeys, lastOp, uiPc>>
    /\ UNCHANGED <<registered_hotkeys, last_hotkey_info, wsLock, mutexes, keysDown, phase,
                   uiTemp, uiEdits, holdToggles, pairStage, winVars, detVars, togVars>>

\* Hotkey::register, app.registered_hotkeys.lock().
LkInsertLock ==
    /\ uiPc = "insert_wait"
    /\ mutexes["registered_hotkeys"] = "none"
    /\ mutexes' = [mutexes EXCEPT !["registered_hotkeys"] = "ui"]
    /\ uiPc' = "insert_held"
    /\ UNCHANGED <<workspaces, last_hotkey_info, wsLock, keysDown, phase, uiAt, uiTemp,
                   uiEdits, holdToggles, pairStage, regVars, winVars, detVars, togVars>>

\* Hotkey::register, the insert; the guard goes with the return.
LkInsertDone ==
    /\ uiPc = "insert_held"
    /\ registered_hotkeys' = MapInsert(registered_hotkeys,
                                       Unwrap(workspaces[uiAt].hotkey).key_sequence,
                                       uiAt - 1)
    /\ mutexes' = [mutexes EXCEPT !["registered_hotkeys"] = "none"]
    /\ uiPc' = "idle"
    /\ uiAt' = uiAt + 1
    /\ UNCHANGED <<workspaces, last_hotkey_info, wsLock, keysDown, phase, uiTemp, uiEdits,
                   holdToggles, pairStage, osHotkeys, lastOp, winVars, detVars, togVars>>

\* validate_initial_hotkeys, self.initial_validation_done.lock().
LkValidationLock ==
    /\ phase = "loaded"
    /\ uiPc = "idle"
    /\ mutexes["initial_validation_done"] = "none"
    /\ mutexes' = [mutexes EXCEPT !["initial_validation_done"] = "ui"]
    /\ uiPc' = "validate_wait"
    /\ UNCHANGED <<workspaces, last_hotkey_info, wsLock, keysDown, phase, uiAt, uiTemp,
                   uiEdits, holdToggles, pairStage, regVars, winVars, detVars, togVars>>

\* validate_initial_hotkeys, self.workspaces.lock() with the flag's guard held
\* (the flag is false: this is the only call).
LkValidationWorkspaces ==
    /\ uiPc = "validate_wait"
    /\ wsLock = "none"
    /\ wsLock' = "ui"
    /\ uiPc' = "validating"
    /\ UNCHANGED <<workspaces, last_hotkey_info, mutexes, keysDown, phase, uiAt, uiTemp,
                   uiEdits, holdToggles, pairStage, regVars, winVars, detVars, togVars>>

\* validate_initial_hotkeys, the loop, the flag set, and both guards dropped.
LkValidationDone ==
    /\ uiPc = "validating"
    /\ workspaces' = validate_initial_hotkeys(workspaces)
    /\ wsLock' = "none"
    /\ mutexes' = [mutexes EXCEPT !["initial_validation_done"] = "none"]
    /\ uiPc' = "spawn"
    /\ UNCHANGED <<last_hotkey_info, keysDown, phase, uiAt, uiTemp, uiEdits, holdToggles,
                   pairStage, regVars, winVars, detVars, togVars>>

\* run_gui, Promise::spawn_thread: the detection thread starts to run.
LkSpawn ==
    /\ uiPc = "spawn"
    /\ detPc' = "poll"
    /\ phase' = "running"
    /\ uiPc' = "promise_wait"
    /\ UNCHANGED <<workspaces, last_hotkey_info, wsLock, mutexes, keysDown, toToggle,
                   detected, uiAt, uiTemp, uiEdits, holdToggles, pairStage, regVars,
                   winVars, togVars>>

\* run_gui, app.hotkey_promise.lock().
LkPromiseLock ==
    /\ uiPc = "promise_wait"
    /\ mutexes["hotkey_promise"] = "none"
    /\ mutexes' = [mutexes EXCEPT !["hotkey_promise"] = "ui"]
    /\ uiPc' = "promise_held"
    /\ UNCHANGED <<workspaces, last_hotkey_info, wsLock, keysDown, phase, uiAt, uiTemp,
                   uiEdits, holdToggles, pairStage, regVars, winVars, detVars, togVars>>

\* run_gui, the promise stored; the guard goes with the statement and the GUI
\* starts.
LkPromiseStore ==
    /\ uiPc = "promise_held"
    /\ mutexes' = [mutexes EXCEPT !["hotkey_promise"] = "none"]
    /\ uiPc' = "idle"
    /\ UNCHANGED <<workspaces, last_hotkey_info, wsLock, keysDown, phase, uiAt, uiTemp,
                   uiEdits, holdToggles, pairStage, regVars, winVars, detVars, togVars>>

\* App::update begins; "Add New Workspace" is clicked in this frame or not. The
\* clicks of a run are counted as the other user inputs are.
LkUiFrame(add) ==
    /\ phase = "running"
    /\ uiPc = "idle"
    /\ add => Len(workspaces) < MaxWorkspaces /\ uiEdits < MaxEdits
    /\ uiPc' = IF add THEN "add_wait" ELSE "label_wait"
    /\ uiEdits' = IF add THEN uiEdits + 1 ELSE uiEdits
    /\ UNCHANGED <<workspaces, last_hotkey_info, wsLock, mutexes, keysDown, phase, uiAt,
                   uiTemp, holdToggles, pairStage, regVars, winVars, detVars, togVars>>

\* "Add New Workspace", self.workspaces.lock().
LkUiAddLock ==
    /\ uiPc = "add_wait"
    /\ wsLock = "none"
    /\ wsLock' = "ui"
    /\ uiPc' = "add_held"
    /\ UNCHANGED <<workspaces, last_hotkey_info, mutexes, keysDown, phase, uiAt, uiTemp,
                   uiEdits, holdToggles, pairStage, regVars, winVars, detVars, togVars>>

\* "Add New Workspace", new_workspace_to_add built from workspaces.len(); the
\* guard goes at the end of the if block.
LkUiAddDrop ==
    /\ uiPc = "add_held"
    /\ wsLock' = "none"
    /\ uiPc' = WithAdd["label_wait"]
    /\ UNCHANGED <<workspaces, last_hotkey_info, mutexes, keysDown, phase, uiAt, uiTemp,
                   uiEdits, holdToggles, pairStage, regVars, winVars, detVars, togVars>>

\* App::update, self.last_hotkey_info.lock() in the if-let of the label.
LkUiLabelLock ==
    /\ UiStage = "label_wait"
    /\ mutexes["last_hotkey_info"] = "none"
    /\ mutexes' = [mutexes EXCEPT !["last_hotkey_info"] = "ui"]
    /\ uiPc' = StagePc("label_held", AddPending)
    /\ UNCHANGED <<workspaces, last_hotkey_info, wsLock, keysDown, phase, uiAt, uiTemp,
                   uiEdits, holdToggles, pairStage, regVars, winVars, detVars, togVars>>

\* A label whose guard lives on into the scroll area.
LkUiLabelKeep ==
    /\ UiStage = "label_held"
    /\ uiPc' = StagePc("scroll_wait", AddPending)
    /\ UNCHANGED <<workspaces, last_hotkey_info, wsLock, mutexes, keysDown, phase, uiAt,
                   uiTemp, uiEdits, holdToggles, pairStage, regVars, winVars, detVars,
                   togVars>>

\* App::update, the label drawn from the clone; the temporary guard goes at
\* the end of the if-let, before the scroll area.
LkUiLabelDrop ==
    /\ UiStage = "label_held"
    /\ mutexes' = [mutexes EXCEPT !["last_hotkey_info"] = "none"]
    /\ uiPc' = StagePc("scroll_wait", AddPending)
    /\ UNCHANGED <<workspaces, last_hotkey_info, wsLock, keysDown, phase, uiAt, uiTemp,
                   uiEdits, holdToggles, pairStage, regVars, winVars, detVars, togVars>>

\* The scroll area, self.workspaces.lock().
LkUiScrollLock ==
    /\ UiStage = "scroll_wait"
    /\ wsLock = "none"
    /\ wsLock' = "ui"
    /\ uiAt' = 1
    /\ uiPc' = StagePc("editing", AddPending)
    /\ UNCHANGED <<workspaces, last_hotkey_info, mutexes, keysDown, phase, uiTemp, uiEdits,
                   holdToggles, pairStage, regVars, winVars, detVars, togVars>>

\* The per-workspace loop of a frame without input, up to the registry call:
\* unregister_hotkey for a disabled workspace, register_hotkey for an enabled
\* one with a shortcut.
LkUiWorkspace ==
    /\ UiStage = "editing"
    /\ uiAt <= Len(workspaces)
    /\ LET a == WsBeforeCapture(Acc(workspaces, osHotkeys, registered_hotkeys, uiTemp),
                                uiAt, NoInput)
           calls == a.wss[uiAt].disabled \/ IsSome(a.wss[uiAt].hotkey)
       IN  /\ workspaces' = a.wss
           /\ uiTemp' = a.temp
           /\ uiPc' = IF calls THEN StagePc("reg_wait", AddPending) ELSE uiPc
           /\ uiAt' = IF calls THEN uiAt ELSE uiAt + 1
    /\ holdToggles' = CountsAfter(workspaces')
    /\ UNCHANGED <<last_hotkey_info, wsLock, mutexes, keysDown, phase, uiEdits, pairStage,
                   regVars, winVars, detVars, togVars>>

\* register_hotkey / unregister_hotkey, the exclusive lock on the registry's
\* maps.
LkUiRegistryLock ==
    /\ UiStage = "reg_wait"
    /\ mutexes["registered_hotkeys"] = "none"
    /\ mutexes' = [mutexes EXCEPT !["registered_hotkeys"] = "ui"]
    /\ uiPc' = StagePc("reg_held", AddPending)
    /\ UNCHANGED <<workspaces, last_hotkey_info, wsLock, keysDown, phase, uiAt, uiTemp,
                   uiEdits, holdToggles, pairStage, regVars, winVars, detVars, togVars>>

\* register_hotkey / unregister_hotkey, the OS call and the map mutation, the
\* lock released; the loop goes to the next workspace.
LkUiRegistryDone ==
    /\ UiStage = "reg_held"
    /\ \E a \in WsAfterCapture(Acc(workspaces, osHotkeys, registered_hotkeys, uiTemp),
                               uiAt, NoInput) :
         /\ workspaces' = a.wss
         /\ osHotkeys' = a.os
         /\ registered_hotkeys' = a.reg
    /\ mutexes' = [mutexes EXCEPT !["registered_hotkeys"] = "none"]
    /\ uiPc' = StagePc("editing", AddPending)
    /\ uiAt' = uiAt + 1
    /\ holdToggles' = CountsAfter(workspaces')
    /\ UNCHANGED <<last_hotkey_info, wsLock, keysDown, phase, uiTemp, uiEdits, pairStage,
                   lastOp, winVars, detVars, togVars>>

\* The end of the scroll area: new_workspace_to_add pushed, the guard dropped;
\* then save_workspaces if "Save Workspaces" was clicked in this frame, which
\* nothing before this point reads.
LkUiScrollDrop(save) ==
    /\ UiStage = "editing"
    /\ uiAt > Len(workspaces)
    /\ workspaces' = FrameEnd(workspaces,
                              IF AddPending THEN Input("add", 0, 0, <<>>) ELSE NoInput, 0)
    /\ wsLock' = "none"
    /\ save => uiEdits < MaxEdits
    /\ uiPc' = IF save THEN "save_wait" ELSE "idle"
    /\ uiEdits' = IF save THEN uiEdits + 1 ELSE uiEdits
    /\ holdToggles' = CountsAfter(workspaces')
    /\ UNCHANGED <<last_hotkey_info, mutexes, keysDown, phase, uiAt, uiTemp, pairStage,
                   regVars, winVars, detVars, togVars>>

\* save_workspaces(&self.workspaces.lock().unwrap(), ..), the lock.
LkUiSaveLock ==
    /\ uiPc = "save_wait"
    /\ wsLock = "none"
    /\ wsLock' = "ui"
    /\ uiPc' = "save_held"
    /\ UNCHANGED <<workspaces, last_hotkey_info, mutexes, keysDown, phase, uiAt, uiTemp,
                   uiEdits, holdToggles, pairStage, regVars, winVars, detVars, togVars>>

\* save_workspaces returns; the temporary guard goes with the statement.
LkUiSaveDrop ==
    /\ uiPc = "save_held"
    /\ wsLock' = "none"
    /\ uiPc' = "idle"
    /\ UNCHANGED <<workspaces, last_hotkey_info, mutexes, keysDown, phase, uiAt, uiTemp,
                   uiEdits, holdToggles, pairStage, regVars, winVars, detVars, togVars>>

\* check_hotkeys, first lock(); the loop finds the pressed enabled workspaces.
LkDetLock ==
    /\ Alive
    /\ detPc = "poll"
    /\ wsLock = "none"
    /\ wsLock' = "det"
    /\ toToggle' = PressedFrom(workspaces, 1, keysDown)
    /\ detected' = <<>>
    /\ holdToggles' = Bump(holdToggles, toToggle')
    /\ detPc' = "collect"
    /\ UNCHANGED <<workspaces, last_hotkey_info, mutexes, keysDown, phase, pairStage,
                   regVars, winVars, togVars, uiVars>>

\* check_hotkeys, app.last_hotkey_info.lock() for a pressed workspace, with
\* the workspaces guard held.
LkDetInfoLock ==
    /\ detPc = "collect"
    /\ Len(detected) < Len(toToggle)
    /\ mutexes["last_hotkey_info"] = "none"
    /\ mutexes' = [mutexes EXCEPT !["last_hotkey_info"] = "det"]
    /\ detPc' = "info_held"
    /\ UNCHANGED <<workspaces, last_hotkey_info, wsLock, keysDown, phase, toToggle,
                   detected, holdToggles, pairStage, regVars, winVars, togVars, uiVars>>

\* check_hotkeys, *last_hotkey_info = Some((key_sequence, now)); the guard
\* goes at the end of the if block.
LkDetInfoWrite ==
    /\ detPc = "info_held"
    /\ LET i == toToggle[Len(detected) + 1]
       IN  /\ last_hotkey_info' = Some(Unwrap(workspaces[i].hotkey).key_sequence)
           /\ detected' = detected \o Collected(workspaces, <<i>>)
    /\ mutexes' = [mutexes EXCEPT !["last_hotkey_info"] = "none"]
    /\ detPc' = "collect"
    /\ UNCHANGED <<workspaces, wsLock, keysDown, phase, toToggle, holdToggles, pairStage,
                   regVars, winVars, togVars, uiVars>>

\* check_hotkeys, drop(workspaces) after the loop.
LkDetDrop ==
    /\ detPc = "collect"
    /\ Len(detected) = Len(toToggle)
    /\ wsLock' = "none"
    /\ detPc' = "relock"
    /\ UNCHANGED <<workspaces, last_hotkey_info, mutexes, keysDown, phase, toToggle,
                   detected, holdToggles, pairStage, regVars, winVars, togVars, uiVars>>

\* The keys whose state the shortcuts of Files ask for.
LockKeys == {VK_CONTROL, 65}

UiLocksNext ==
    \/ \E file \in Files : LoadFile(file)
    \/ LkLoadRegister
    \/ LkInsertLock
    \/ LkInsertDone
    \/ LoadReturn
    \/ LkValidationLock
    \/ LkValidationWorkspaces
    \/ LkValidationDone
    \/ LkSpawn
    \/ LkPromiseLock
    \/ LkPromiseStore
    \/ \E add \in BOOLEAN : LkUiFrame(add)
    \/ LkUiAddLock
    \/ LkUiAddDrop
    \/ LkUiLabelLock
    \/ LkUiLabelDrop
    \/ LkUiScrollLock
    \/ LkUiWorkspace
    \/ LkUiRegistryLock
    \/ LkUiRegistryDone
    \/ \E save \in BOOLEAN : LkUiScrollDrop(save)
    \/ LkUiSaveLock
    \/ LkUiSaveDrop

DetLocksNext ==
    \/ LkDetLock
    \/ LkDetInfoLock
    \/ LkDetInfoWrite
    \/ LkDetDrop
    \/ DetRelock
    \/ DetDispatchNext
    \/ ToggleDecide
    \/ ToggleWindow

NextLocks ==
    \/ UiLocksNext
    \/ DetLocksNext
    \/ \E k \in LockKeys : KeyPress(k)
    \/ \E k \in LockKeys : KeyRelease(k)

SpecLocks == Init /\ [][NextLocks]_vars


(***************************************************************************)
(* Claims about the mutexes.                                               *)
(***************************************************************************)
Threads == {"ui", "det"}

\* The thread holding a mutex, "none" if it is free.
Holder(m) == IF m = "workspaces" THEN wsLock ELSE mutexes[m]

\* The mutexes a thread holds.
Holds(t) == {m \in Mutexes \cup {"workspaces"} : Holder(m) = t}

\* The mutex whose lock() a thread stands before, "none" if its next step is
\* not a lock().
WaitsFor(t) ==
    IF t = "det"
    THEN IF Alive /\ detPc \in {"poll", "relock"} THEN "workspaces"
         ELSE IF detPc = "collect" /\ Len(detected) < Len(toToggle) THEN "last_hotkey_info"
         ELSE "none"
    ELSE IF phase = "start" \/ UiStage \in {"add_wait", "scroll_wait", "save_wait",
                                            "validate_wait"}
         THEN "workspaces"
         ELSE IF UiStage = "label_wait" THEN "last_hotkey_info"
         ELSE IF UiStage \in {"reg_wait", "insert_wait"} THEN "registered_hotkeys"
         ELSE IF phase = "loaded" /\ uiPc = "idle" THEN "initial_validation_done"
         ELSE IF uiPc = "promise_wait" THEN "hotkey_promise"
         ELSE "none"

\* The one order of nested acquisitions: initial_validation_done, then
\* workspaces, then one of the others.
LockRank == [initial_validation_done |-> 0, workspaces |-> 1, last_hotkey_info |-> 2,
             registered_hotkeys |-> 2, hotkey_promise |-> 2]

\* C27: the threads never deadlock on the mutexes: a thread that stands
\* before a lock() does not hold that mutex itself, holds only mutexes that
\* come earlier in the one order of nesting, and if the other thread holds
\* the mutex, that thread does not wait for a mutex the first one holds and
\* has a step it can take, so the mutex is released.
C27_NoDeadlockOnMutexes ==
    \A t \in Threads :
        LET m == WaitsFor(t)
        IN  m # "none"
              => /\ Holder(m) # t
                 /\ \A h \in Holds(t) : LockRank[h] < LockRank[m]
                 /\ Holder(m) # "none" => WaitsFor(Holder(m)) \notin Holds(t)
                 /\ Holder(m) = "ui" => ENABLED UiLocksNext
                 /\ Holder(m) = "det" => ENABLED DetLocksNext

\* The detection thread, holding workspaces, stands before the lock() of
\* last_hotkey_info while the UI thread holds it for the label.
C27_Witness ==
    /\ wsLock = "det"
    /\ WaitsFor("det") = "last_hotkey_info"
    /\ Holder("last_hotkey_info") = "ui"


(***************************************************************************)
(* Claims about the bindings the program holds at the OS.                  *)
(***************************************************************************)
\* The binding is the one the workspace at the position of its id asks for.
BelongsToItsWorkspace(b) ==
    /\ b.id + 1 <= Len(workspaces)
    /\ IsSome(workspaces[b.id + 1].hotkey)
    /\ LET p == ParseForRegister(Unwrap(workspaces[b.id + 1].hotkey).key_sequence, 0, None)
       IN  /\ IsSome(p.vk_code)
           /\ b.mods = p.modifiers
           /\ b.vk = Unwrap(p.vk_code)

\* C31: no dangling bindings: every binding the program holds at the OS
\* belongs to a workspace that is in the list at the position of the
\* binding's id and whose shortcut is the combination bound.
C31_NoDanglingBinding ==
    \A b \in osHotkeys : BelongsToItsWorkspace(b)


\* The binding is the one a registration of the text under the id makes.
BindingFor(b, text, id) ==
    LET p == ParseForRegister(text, 0, None)
    IN  /\ IsSome(p.vk_code)
        /\ b.id = id
        /\ b.mods = p.modifiers
        /\ b.vk = Unwrap(p.vk_code)

\* C32: registered_hotkeys mirrors the OS: every key of the map has a live
\* binding of its combination under the mapped id, and every live binding of
\* the program has a key of the map that spells its combination and maps to
\* its id.
C32_MapMirrorsOs ==
    /\ \A text \in DOMAIN registered_hotkeys :
         \E b \in osHotkeys : BindingFor(b, text, registered_hotkeys[text])
    /\ \A b \in osHotkeys :
         \E text \in DOMAIN registered_hotkeys :
            BindingFor(b, text, registered_hotkeys[text])


\* A frame of App::update runs from its start to its end in the step.
FrameStep ==
    /\ phase = "running" /\ phase' = "running"
    /\ uiPc = "idle" /\ uiPc' = "idle"
    /\ <<keysDown, osLive, osPos, osIconic, detPc, toToggle, tPc>>'
         = <<keysDown, osLive, osPos, osIconic, detPc, toToggle, tPc>>

\* The bindings the program holds under the id of position i.
BindingsAt(os, i) == {b \in os : b.id = i - 1}

\* The shortcut of the workspace can be bound: it has a key code and no other
\* application and no other position holds the combination.
Bindable(os, wss, i) ==
    /\ IsSome(wss[i].hotkey)
    /\ LET p == ParseForRegister(Unwrap(wss[i].hotkey).key_sequence, 0, None)
       IN  /\ IsSome(p.vk_code)
           /\ <<p.modifiers, Unwrap(p.vk_code)>> \notin OtherAppHotkeys
           /\ \A b \in os : (b.mods = p.modifiers /\ b.vk = Unwrap(p.vk_code))
                               => b.id = i - 1

\* C33: at the end of every frame a disabled workspace has no live binding,
\* an enabled workspace whose shortcut can be bound has it bound under its
\* id, and no workspace has a second binding.
C33_DisabledUnboundEnabledBound ==
    [][ FrameStep
        => \A i \in 1..Len(workspaces') :
             /\ workspaces'[i].disabled => BindingsAt(osHotkeys', i) = {}
             /\ Cardinality(BindingsAt(osHotkeys', i)) <= 1
             /\ (~workspaces'[i].disabled /\ Bindable(osHotkeys', workspaces', i))
                  => \E b \in BindingsAt(osHotkeys', i) :
                        BindingFor(b, Unwrap(workspaces'[i].hotkey).key_sequence, i - 1)
      ]_vars


(***************************************************************************)
(* Claims about Workspace::set_hotkey, key codes and detection.            *)
(***************************************************************************)
\* C34: set_hotkey with a text the validator rejects returns Err and leaves
\* the stored hotkey as it was; with an accepted text it returns Ok and
\* stores that text; and set_hotkey with the text the workspace already
\* holds keeps the registration id of its hotkey.
C34_SetHotkeyKeepsIdOfSameText ==
    [][ \A i \in 1..MaxWorkspaces, text \in KeyTexts :
          ApiSetHotkey(i, text)
            => /\ lastOp'.ok = is_valid_key_combo(text)
               /\ ~is_valid_key_combo(text)
                    => workspaces'[i].hotkey = workspaces[i].hotkey
               /\ is_valid_key_combo(text)
                    => /\ IsSome(workspaces'[i].hotkey)
                       /\ Unwrap(workspaces'[i].hotkey).key_sequence = text
               /\ ( /\ IsSome(workspaces[i].hotkey)
                    /\ Unwrap(workspaces[i].hotkey).key_sequence = text )
                    => /\ IsSome(workspaces'[i].hotkey)
                       /\ Unwrap(workspaces'[i].hotkey).id = Unwrap(workspaces[i].hotkey).id
      ]_vars


(***************************************************************************)
(* Key codes on their own: one workspace whose shortcut ends in any key of *)
(* the validator's vocabulary (or in a key outside it), bare or with Ctrl, *)
(* alone or before a second workspace with a bare key; the shortcuts are   *)
(* registered, the detection thread is spawned and polls while the keys    *)
(* they name go down and up.                                               *)
(***************************************************************************)
CodeKeys == RegexKeys \cup {"F25"}

\* The keys of a second workspace: two whose names begin other key names.
PairKeys == {"F", "LEFT"}

CodeWorkspace(n, text) ==
    Workspace(WsName(n), Some(Hotkey(text, None)), <<>>, FALSE, FALSE)

CodeLists ==
    {<<CodeWorkspace(1, <<k>>)>> : k \in CodeKeys}
    \cup {<<CodeWorkspace(1, <<"Ctrl", k>>)>> : k \in CodeKeys}
    \cup {<<CodeWorkspace(1, <<k1>>), CodeWorkspace(2, <<k2>>)>> :
            k1 \in CodeKeys, k2 \in PairKeys}

InitCodes ==
    /\ workspaces \in CodeLists
    /\ registered_hotkeys = EmptyMap
    /\ last_hotkey_info = None
    /\ wsLock = "none"
    /\ mutexes = NoHolder
    /\ osLive = Hwnds
    /\ osPos = [h \in Hwnds |-> RectDefault]
    /\ osIconic = {}
    /\ osHotkeys = {}
    /\ keysDown = {}
    /\ phase = "loaded"
    /\ detPc = "unspawned"
    /\ toToggle = <<>>
    /\ detected = <<>>
    /\ tPc = "idle"
    /\ tWs = 1
    /\ tK = 1
    /\ all_at_home = FALSE
    /\ osLog = <<>>
    /\ uiPc = "idle"
    /\ uiAt = 1
    /\ uiTemp = NoTemp
    /\ uiEdits = 0
    /\ lastOp = NoOp
    /\ holdToggles = NoToggles
    /\ pairStage = 0

\* The keys of the keyboard that the shortcuts of the list name: Ctrl and the
\* keys that virtual_key_from_string gives for their last tokens.
NamedKeys ==
    {VK_CONTROL : i \in {j \in 1..Len(workspaces) :
                           Len(Unwrap(workspaces[j].hotkey).key_sequence) > 1}}
    \cup {Unwrap(virtual_key_from_string(t)) :
            t \in {u \in {Unwrap(workspaces[j].hotkey).key_sequence[
                             Len(Unwrap(workspaces[j].hotkey).key_sequence)] :
                          j \in 1..Len(workspaces)} :
                     IsSome(virtual_key_from_string(u))}}

NextCodes ==
    \/ \E i \in 1..MaxWorkspaces : ApiRegister(i)
    \/ RunGuiSpawn
    \/ DetDetect
    \/ DetRelock
    \/ DetDispatchNext
    \/ ToggleDecide
    \/ \E k \in NamedKeys : KeyPress(k)
    \/ \E k \in NamedKeys : KeyRelease(k)

SpecCodes == InitCodes /\ [][NextCodes]_vars


\* The text of the shortcut of the workspace at position i.
TextAt(i) == Unwrap(workspaces[i].hotkey).key_sequence

\* The last token of a text: its terminal key.
Terminal(text) == text[Len(text)]

\* The keys of the modifiers a text names are down.
NamedModifiersDown(text, down) ==
    \A n \in 1..(Len(text) - 1) :
        /\ text[n] = "Ctrl" => VK_CONTROL \in down
        /\ text[n] = "Alt" => VK_MENU \in down
        /\ text[n] = "Shift" => VK_SHIFT \in down
        /\ text[n] = "Win" => (VK_LWIN \in down \/ VK_RWIN \in down)

\* C35: the terminal key of every shortcut the validator accepts has a key
\* code: Hotkey::register fails for it only if the OS refuses the
\* combination, a poll with its keys down collects its workspace, and no
\* other key of the validator's vocabulary has the same code.
C35_AcceptedKeysHaveDistinctCodes ==
    [][ \A i \in 1..Len(workspaces) :
          is_valid_key_combo(TextAt(i))
            => LET code == virtual_key_from_string(Terminal(TextAt(i)))
                   p == ParseForRegister(TextAt(i), 0, None)
               IN  /\ IsSome(code)
                   /\ p.vk_code = code
                   /\ ( /\ lastOp'.n # lastOp.n
                        /\ lastOp'.op = "register"
                        /\ lastOp'.i = i
                        /\ RegisterHotKeyOk(osHotkeys, p.modifiers, Unwrap(code)) )
                        => lastOp'.ok
                   /\ ( /\ detPc = "poll" /\ detPc' = "relock"
                        /\ Unwrap(code) \in keysDown
                        /\ NamedModifiersDown(TextAt(i), keysDown) )
                        => \E n \in 1..Len(toToggle') : toToggle'[n] = i
                   /\ (lastOp'.n # lastOp.n /\ lastOp'.i = i)
                        => \A other \in RegexKeys \ {Terminal(TextAt(i))} :
                              virtual_key_from_string(other) # code
      ]_vars

\* Two workspaces whose shortcuts end in different keys, one the name of the
\* other's beginning, are both bound, under different key codes, and one poll
\* has collected both.
C35_Witness ==
    /\ Len(workspaces) = 2
    /\ Terminal(TextAt(1)) = "LEFTALT"
    /\ Terminal(TextAt(2)) = "LEFT"
    /\ \E b1 \in osHotkeys, b2 \in osHotkeys : b1.id = 0 /\ b2.id = 1 /\ b1.vk # b2.vk
    /\ toToggle = <<1, 2>>


ModifierNames == {"ctrl", "alt", "shift", "win"}

\* The modifiers a text names, and those whose keys are down.
NamedModifiers(text) == {Lower(text[k]) : k \in 1..Len(text)} \cap ModifierNames

HeldModifiers(down) ==
    {m \in ModifierNames :
        \/ m = "ctrl" /\ VK_CONTROL \in down
        \/ m = "alt" /\ VK_MENU \in down
        \/ m = "shift" /\ VK_SHIFT \in down
        \/ m = "win" /\ (VK_LWIN \in down \/ VK_RWIN \in down)}

\* The code of the terminal key of a text: of its last token that is not a
\* modifier, None if there is no such token or it has no code.
TerminalCode(text) ==
    LET at == {k \in 1..Len(text) : Lower(text[k]) \notin ModifierNames}
    IN  IF at = {} THEN None
        ELSE virtual_key_from_string(text[CHOOSE k \in at : \A l \in at : l <= k])

\* C36: a poll finds a shortcut pressed exactly when its terminal key has a
\* code and is down together with every modifier the text names, and it
\* collects only workspaces whose shortcut is the held combination: no
\* modifier is down that the shortcut does not name.
C36_PressedIsTheHeldCombination ==
    [][ DetectStep
        => \A i \in 1..Len(workspaces) :
             (~workspaces[i].disabled /\ IsSome(workspaces[i].hotkey))
               => LET text == TextAt(i)
                      collected == \E n \in 1..Len(toToggle') : toToggle'[n] = i
                  IN  /\ collected
                        <=> /\ IsSome(TerminalCode(text))
                            /\ Unwrap(TerminalCode(text)) \in keysDown
                            /\ NamedModifiers(text) \subseteq HeldModifiers(keysDown)
                      /\ collected => HeldModifiers(keysDown) = NamedModifiers(text)
      ]_vars


(***************************************************************************)
(* Claims about toggles that find nothing to move.                         *)
(***************************************************************************)
\* No handle of the workspace is a window.
AllStale(workspace) ==
    \A k \in 1..Len(workspace.windows) : ~IsWindow(workspace.windows[k].id)

\* C37: a toggle of a workspace without a live window (no windows at all, or
\* stale handles only, whatever their cached valid flags) makes no restore,
\* move or activate call: the decision touches no window and ends the toggle
\* of an empty workspace, and each pass of the loop only skips, changes no
\* window and goes to the next window or to the end.
C37_NothingLiveNothingCalled ==
    [][ AllStale(workspaces[tWs])
        => /\ (tPc = "decide" /\ tPc' # "decide")
                => /\ osLog' = <<>>
                   /\ <<osLive, osPos, osIconic>>' = <<osLive, osPos, osIconic>>
                   /\ tPc' = IF Len(workspaces[tWs].windows) = 0 THEN "done" ELSE "window"
           /\ (tPc = "window" /\ tK' # tK)
                => /\ \A n \in 1..Len(NewCalls) : NewCalls[n].op = "skip"
                   /\ <<osLive, osPos, osIconic>>' = <<osLive, osPos, osIconic>>
                   /\ tK' = tK + 1
                   /\ tPc' = IF tK = Len(workspaces[tWs].windows) THEN "done" ELSE "window"
      ]_vars

\* The toggle of a workspace with two stale handles, the first of them with
\* its cached valid flag still set, has finished with two skips and no call.
C37_Witness ==
    /\ tPc = "done"
    /\ Len(workspaces[tWs].windows) = 2
    /\ AllStale(workspaces[tWs])
    /\ workspaces[tWs].windows[1].valid
    /\ Len(osLog) = 2
    /\ \A n \in 1..Len(osLog) : osLog[n].op = "skip"

====
